---------------------------- MODULE Spec2Model ----------------------------
(***************************************************************************)
(* A model of the scraping pipeline of the league backend                  *)
(* (src/backend/league/scrapers): the rate-limited fetcher, the table      *)
(* parsers, the per-run team resolver and the persistence routines,        *)
(* together with the relational store they write to.                       *)
(*                                                                         *)
(* The module holds several specifications over one set of variables; each *)
(* one moves only the variables of its part and keeps the others at their  *)
(* initial values:                                                         *)
(*   SpecFetch    BaseScraper.fetch_page / _rate_limit and the scrape      *)
(*                entry points of ChampionScraper and TeamScraper          *)
(*   SpecParse    the table parsers of TeamScraper, MatchScraper and       *)
(*                TournamentScraper applied to HTML documents              *)
(*   SpecMatchScrape   MatchScraper.scrape called repeatedly on one        *)
(*                instance, the teams edited through the REST API between  *)
(*   SpecPersist  a persist operation of a scraper called on a batch, with *)
(*                a storage fault or without, and called again             *)
(*   SpecCoerce   one cell text given to one coercer of ChampionScraper or  *)
(*                TeamScraper                                              *)
(*   SpecRows     a table of champion rows or a team row given to its row  *)
(*                mapper, the mapped team row then persisted               *)
(*   SpecEndpoint the endpoints of ScraperViewSet posted to: validation,   *)
(*                the scrape call of a new scraper, the persist call and   *)
(*                the response                                             *)
(***************************************************************************)
EXTENDS Integers, Sequences, FiniteSets, TLC

VARIABLES
    \* ---- fetcher (BaseScraper instance + the clock and the network) ----
    clock,              \* time.time(), in ticks
    delay,              \* self.delay
    last_request_time,  \* self.last_request_time
    requests,           \* the last two network requests really sent: <<[sent, end]>>
    nsent,              \* how many network requests were sent
    ncalls,             \* fetch_page and scrape calls made so far
    fetched,            \* what the last fetch_page call gave its caller
    logged,             \* the last logger.error line of fetch_page
    fs,                 \* the local file system: resolved path -> kind
    scraped,            \* the last scrape(...) call and what it did
    \* ---- the relational store (league/models.py) ----
    store,              \* the tables: sets of rows
    ids,                \* the next value of each table's id sequence
    \* ---- MatchScraper instance ----
    team_cache,         \* self._team_cache: trimmed name -> Team handle
    \* ---- table parsers ----
    doc,                \* the HTML document handed to a parser
    parsed,             \* the last parser call and what it returned
    \* ---- scrape calls ----
    run,                \* the last scrape call of MatchScraper, or the last endpoint call
    nruns,              \* scrape calls made on the MatchScraper instance, or requests posted
    nedits,             \* edits of the store made through the REST API
    \* ---- persist calls ----
    calls               \* the persist calls made, with what each returned

fetchVars == <<clock, delay, last_request_time, requests, nsent, ncalls, fetched, logged, fs, scraped>>
storeVars == <<store, ids>>
parseVars == <<team_cache, doc, parsed>>
scrapeVars == <<run, nruns, nedits>>
persistVars == <<calls>>

\* What the actions of each part leave alone.
notFetchVars == <<storeVars, parseVars, scrapeVars, persistVars>>
notParseVars == <<fetchVars, scrapeVars, persistVars>>

vars == <<clock, delay, last_request_time, requests, nsent, ncalls, fetched, logged, fs, scraped,
          store, ids, team_cache, doc, parsed, run, nruns, nedits, calls>>

-----------------------------------------------------------------------------
(* Values shared by all parts *)

\* Python's None, where a string is expected and where an object is expected
\* (TLC compares values of one kind only).
None == "None"
NoneObj == [kind |-> "None"]

Min(a, b) == IF a <= b THEN a ELSE b

-----------------------------------------------------------------------------
(***************************************************************************)
(* Part 1: the fetcher (scrapers/base.py)                                  *)
(***************************************************************************)

\* Bounds of the fetcher part.
MaxDur == 2
MaxIdle == 1
MaxFetches == 2

\* BaseScraper.__init__(delay=1.0): one tick is one second.
DefaultDelay == 1

\* time.time() is far from 0 = the initial last_request_time: the first call
\* never sleeps.
Epoch == DefaultDelay + 1

\* A source handed to scrape: an http URL, an absolute path or a path relative
\* to the scraper's directory.
UrlSource == [form |-> "url", name |-> "http://gol.gg/x"]
AbsSource == [form |-> "abs", name |-> "/snap/t.html"]
RelSource == [form |-> "rel", name |-> "t.html"]
Sources == {UrlSource, AbsSource, RelSource}

\* Path(source); if not is_absolute(): scraper_dir / path
ResolvePath(src) ==
    IF src.form = "abs" THEN src.name ELSE "scraper_dir/" \o src.name

\* The local file systems considered: what lies at each resolved path.
FileSystems ==
    { [p \in { ResolvePath(s) : s \in Sources } |->
          IF p = ResolvePath(AbsSource) THEN a
          ELSE IF p = ResolvePath(RelSource) THEN r ELSE "absent"] :
      a \in {"absent", "file", "unreadable"}, r \in {"absent", "file"} }

\* file_path_obj.exists() and file_path_obj.is_file()
IsExistingFile(files, src) ==
    /\ src # NoneObj
    /\ files[ResolvePath(src)] \in {"file", "unreadable"}

\* What the network does with a request that is sent.
NetOutcomes == {"ok", "timeout", "http_error", "connection_error"}

\* requests refuses a URL without an http scheme before anything is sent
\* (MissingSchema, a RequestException).
Outcome(url, net) == IF url.form = "url" THEN net ELSE "invalid_url"

\* BaseScraper._rate_limit: sleep until `delay` has passed since
\* last_request_time, then stamp last_request_time with the time after the sleep.
RateLimit(lrt, now, d) ==
    LET time_since_last_request == now - lrt
        sleep_time == IF time_since_last_request < d
                      THEN d - time_since_last_request ELSE 0
    IN  [slept |-> sleep_time, last_request_time |-> now + sleep_time]

\* The except clause of fetch_page: requests.RequestException covers timeouts,
\* HTTP error statuses (raise_for_status), connection errors and invalid URLs.
IsRequestException(outcome) ==
    outcome \in {"timeout", "http_error", "connection_error", "invalid_url"}

\* fetch_page with an except clause that names only the HTTP and connection
\* errors: a timeout leaves the call as an exception.
FetchPageUncaughtTimeout(lrt, now, d, url, net, dur) ==
    LET rl == RateLimit(lrt, now, d)
        outcome == Outcome(url, net)
        sentAt == rl.last_request_time
        wire == outcome # "invalid_url"
        endAt == IF wire THEN sentAt + dur ELSE sentAt
        caught == IsRequestException(outcome) /\ outcome # "timeout"
    IN  [ value |-> IF outcome = "ok"
                    THEN [kind |-> "response", url |-> url.name, status_code |-> 200]
                    ELSE NoneObj,
          raised |-> outcome # "ok" /\ ~caught,
          outcome |-> outcome,
          url |-> url.name,
          log |-> IF outcome # "ok" /\ caught
                  THEN [url |-> url.name, cause |-> outcome] ELSE NoneObj,
          slept |-> rl.slept,
          last_request_time |-> rl.last_request_time,
          request |-> IF wire THEN [sent |-> sentAt, end |-> endAt] ELSE NoneObj,
          now |-> endAt ]

\* BaseScraper.fetch_page(url) called at time `now`; the request, when one is
\* sent, takes `dur`. Gives the value returned (a response or NoneObj), whether an
\* exception left the call, the log line, and the request sent (or NoneObj).
FetchPage(lrt, now, d, url, net, dur) ==
    LET rl == RateLimit(lrt, now, d)
        outcome == Outcome(url, net)
        sentAt == rl.last_request_time
        wire == outcome # "invalid_url"
        endAt == IF wire THEN sentAt + dur ELSE sentAt
        caught == IsRequestException(outcome)
    IN  [ value |-> IF outcome = "ok"
                    THEN [kind |-> "response", url |-> url.name, status_code |-> 200]
                    ELSE NoneObj,
          raised |-> outcome # "ok" /\ ~caught,
          outcome |-> outcome,
          url |-> url.name,
          log |-> IF outcome # "ok" /\ caught
                  THEN [url |-> url.name, cause |-> outcome] ELSE NoneObj,
          slept |-> rl.slept,
          last_request_time |-> rl.last_request_time,
          request |-> IF wire THEN [sent |-> sentAt, end |-> endAt] ELSE NoneObj,
          now |-> endAt ]

\* The scraper's fetcher as a value: the clock, the rate limiter, the requests
\* sent, and the result and log line of the last fetch_page call.
Fetcher ==
    [ clock |-> clock, last_request_time |-> last_request_time, requests |-> requests,
      nsent |-> nsent, fetched |-> fetched, logged |-> logged ]

\* The fetcher after a fetch_page call with outcome f.
FetcherAfter(fst, f) ==
    [ clock |-> f.now,
      last_request_time |-> f.last_request_time,
      requests |-> IF f.request = NoneObj THEN fst.requests
                   ELSE IF fst.requests = <<>> THEN <<f.request>>
                   ELSE <<fst.requests[Len(fst.requests)], f.request>>,
      nsent |-> IF f.request = NoneObj THEN fst.nsent ELSE fst.nsent + 1,
      fetched |-> [ value |-> f.value, raised |-> f.raised, outcome |-> f.outcome,
                    url |-> f.url ],
      logged |-> f.log ]

SetFetcher(fst) ==
    /\ clock' = fst.clock
    /\ last_request_time' = fst.last_request_time
    /\ requests' = fst.requests
    /\ nsent' = fst.nsent
    /\ fetched' = fst.fetched
    /\ logged' = fst.logged

\* The fetcher's state after a fetch_page call.
AfterFetch(f) == SetFetcher(FetcherAfter(Fetcher, f))

NoFetch(now) ==
    /\ clock' = now
    /\ UNCHANGED <<last_request_time, requests, nsent, fetched, logged>>

CanFetch == ncalls < MaxFetches

\* A caller invokes fetch_page directly, `idle` ticks after the previous call
\* returned.
FetchPageCall ==
    \E net \in NetOutcomes, dur \in 0..MaxDur, idle \in 0..MaxIdle :
        /\ CanFetch
        /\ ncalls' = ncalls + 1
        /\ AfterFetch(FetchPage(last_request_time, clock + idle, delay, UrlSource, net, dur))
        /\ UNCHANGED <<delay, fs, scraped>>
        /\ UNCHANGED notFetchVars

\* ChampionScraper.scrape without the test whether source_url is a local file.
ChampionSourceUrlOnly(files, source_url, file_path) ==
    IF file_path # NoneObj
    THEN IF IsExistingFile(files, file_path)
         THEN IF files[ResolvePath(file_path)] = "file"
              THEN [via |-> "file", opened |-> ResolvePath(file_path), error |-> None]
              ELSE [via |-> "none", opened |-> ResolvePath(file_path),
                    error |-> "Failed to read file"]
         ELSE [via |-> "none", opened |-> None, error |-> "File not found"]
    ELSE IF source_url # NoneObj
    THEN [via |-> "url", opened |-> None, error |-> None]
    ELSE [via |-> "none", opened |-> None, error |-> "No source_url or file_path provided"]

\* ChampionScraper.scrape(source_url, file_path): the branch that obtains the
\* HTML (an explicit file_path takes precedence over source_url).
ChampionSource(files, source_url, file_path) ==
    IF file_path # NoneObj
    THEN IF IsExistingFile(files, file_path)
         THEN IF files[ResolvePath(file_path)] = "file"
              THEN [via |-> "file", opened |-> ResolvePath(file_path), error |-> None]
              ELSE [via |-> "none", opened |-> ResolvePath(file_path),
                    error |-> "Failed to read file"]
         ELSE [via |-> "none", opened |-> None, error |-> "File not found"]
    ELSE IF source_url # NoneObj
    THEN IF IsExistingFile(files, source_url)
         THEN IF files[ResolvePath(source_url)] = "file"
              THEN [via |-> "file", opened |-> ResolvePath(source_url), error |-> None]
              ELSE [via |-> "none", opened |-> ResolvePath(source_url),
                    error |-> "Failed to read file"]
         ELSE [via |-> "url", opened |-> None, error |-> None]
    ELSE [via |-> "none", opened |-> None, error |-> "No source_url or file_path provided"]

\* TeamScraper.scrape(source_url): no file branch, every non-empty source goes
\* to fetch_page.
TeamSource(files, source_url) ==
    IF source_url = NoneObj
    THEN [via |-> "none", opened |-> None, error |-> "source_url is required"]
    ELSE [via |-> "url", opened |-> None, error |-> None]

\* The record kept of a scrape call: the source that decided the branch, what
\* was opened, and the rate limiter and the network before and after.
ScrapeRecord(scraper, src, how, err, lrtAfter, nsentAfter, slept) ==
    [ scraper |-> scraper,
      source |-> src,
      source_type |-> how.via,
      opened |-> how.opened,
      error |-> err,
      lrt_before |-> last_request_time,
      lrt_after |-> lrtAfter,
      nsent_before |-> nsent,
      nsent_after |-> nsentAfter,
      slept |-> slept ]

\* The part of a scrape call that obtains the HTML, for the branch `how`.
ObtainHtml(scraper, src, url, how, idle) ==
    IF how.via = "url"
    THEN \E net \in {"ok", "timeout"}, dur \in 0..MaxDur :
            LET f == FetchPage(last_request_time, clock + idle, delay, url, net, dur)
            IN  /\ AfterFetch(f)
                /\ scraped' = ScrapeRecord(scraper, src, how,
                       IF f.value = NoneObj THEN "Failed to fetch" ELSE None,
                       f.last_request_time,
                       nsent + (IF f.request = NoneObj THEN 0 ELSE 1),
                       f.slept)
    ELSE /\ NoFetch(clock + idle)
         /\ scraped' = ScrapeRecord(scraper, src, how, how.error,
                last_request_time, nsent, 0)

ChampionScrape ==
    \E source_url \in Sources \cup {NoneObj}, file_path \in {AbsSource, RelSource, NoneObj},
       idle \in 0..MaxIdle :
        /\ CanFetch
        /\ ncalls' = ncalls + 1
        /\ ObtainHtml("champion",
                      IF file_path # NoneObj THEN file_path ELSE source_url,
                      source_url,
                      ChampionSource(fs, source_url, file_path), idle)
        /\ UNCHANGED <<delay, fs>>
        /\ UNCHANGED notFetchVars

TeamScrape ==
    \E source_url \in Sources \cup {NoneObj}, idle \in 0..MaxIdle :
        /\ CanFetch
        /\ ncalls' = ncalls + 1
        /\ ObtainHtml("team", source_url, source_url, TeamSource(fs, source_url), idle)
        /\ UNCHANGED <<delay, fs>>
        /\ UNCHANGED notFetchVars

-----------------------------------------------------------------------------
(***************************************************************************)
(* Part 2: texts, the store and the team resolver                          *)
(***************************************************************************)

\* A text is a sequence of characters, so that strip(), lower(), slicing and
\* splitting are computed on it; a message is a sequence of pieces, the fixed
\* parts of the f-string and the characters of the texts put into it.
\* Attribute values that the code only compares are plain strings.
\* NoneText is None where a text or a message is expected.
NoneText == <<None>>

Whitespace == {" "}

\* str.strip()
Strip(s) ==
    LET keep == { i \in 1..Len(s) : s[i] \notin Whitespace }
    IN  IF keep = {} THEN <<>>
        ELSE SubSeq(s, CHOOSE i \in keep : \A j \in keep : i <= j,
                       CHOOSE i \in keep : \A j \in keep : i >= j)

\* (value or '')
OrEmpty(s) == IF s = NoneText THEN <<>> ELSE s

\* `not value` for a text or None
Falsy(text) == text = NoneText \/ text = <<>>

\* a or b
Or(a, b) == IF Falsy(a) THEN b ELSE a

UpperCase == <<"A","B","C","D","E","F","G","H","I","J","K","L","M",
               "N","O","P","Q","R","S","T","U","V","W","X","Y","Z">>
LowerCase == <<"a","b","c","d","e","f","g","h","i","j","k","l","m",
               "n","o","p","q","r","s","t","u","v","w","x","y","z">>

\* str.lower()
Lower(s) ==
    [ i \in 1..Len(s) |->
        IF \E k \in 1..Len(UpperCase) : UpperCase[k] = s[i]
        THEN LowerCase[CHOOSE k \in 1..Len(UpperCase) : UpperCase[k] = s[i]]
        ELSE s[i] ]

Digits == <<"0","1","2","3","4","5","6","7","8","9">>
IsDigit(c) == \E k \in 1..Len(Digits) : Digits[k] = c
DigitValue(c) == (CHOOSE k \in 1..Len(Digits) : Digits[k] = c) - 1
DigitChar(n) == Digits[n + 1]

\* int(s) for a text of decimal digits
RECURSIVE DigitsValue(_)
DigitsValue(s) ==
    IF s = <<>> THEN 0
    ELSE 10 * DigitsValue(SubSeq(s, 1, Len(s) - 1)) + DigitValue(s[Len(s)])

IsDigits(s) == s # <<>> /\ \A i \in 1..Len(s) : IsDigit(s[i])

\* str.split(sep) for a one-character separator
RECURSIVE Split(_, _)
Split(s, sep) ==
    IF \A i \in 1..Len(s) : s[i] # sep THEN <<s>>
    ELSE LET k == CHOOSE i \in 1..Len(s) : s[i] = sep /\ \A j \in 1..(i - 1) : s[j] # sep
         IN  <<SubSeq(s, 1, k - 1)>> \o Split(SubSeq(s, k + 1, Len(s)), sep)

\* str.replace(ch, '')
Remove(s, ch) == SelectSeq(s, LAMBDA c : c # ch)

Unknown == <<"U","n","k","n","o","w","n">>

\* The tables of league/models.py that the scrapers read and write.
EmptyStore ==
    [ teams |-> {}, seasons |-> {}, stats |-> {}, tournaments |-> {},
      matches |-> {}, patches |-> {}, games |-> {} ]

FirstIds ==
    [ teams |-> 1, seasons |-> 1, stats |-> 1, tournaments |-> 1,
      matches |-> 1, patches |-> 1, games |-> 1 ]

\* Team.objects.filter(name=...): exact, case-sensitive match
TeamsNamed(teams, name) == { t \in teams : t.name = name }

\* Team.objects.get_or_create(name=name, defaults={'region': 'Unknown'})
TeamGetOrCreate(teams, seq, name) ==
    IF TeamsNamed(teams, name) = {}
    THEN [ team |-> [id |-> seq, name |-> name, region |-> Unknown], created |-> TRUE,
           teams |-> teams \cup {[id |-> seq, name |-> name, region |-> Unknown]},
           seq |-> seq + 1 ]
    ELSE [ team |-> CHOOSE t \in TeamsNamed(teams, name) : TRUE, created |-> FALSE,
           teams |-> teams, seq |-> seq ]

\* self._team_cache[normalized] = team
CacheWith(cache, normalized, team) ==
    [ n \in DOMAIN cache \cup {normalized} |-> IF n = normalized THEN team ELSE cache[n] ]

\* What a resolution gives: the Team handle (NoneObj for None), the teams
\* table, the id sequence and the cache after it, and the name that went to the
\* store (<<>> when nothing did).
Resolution(team, teams, seq, cache, trip) ==
    [ team |-> team, teams |-> teams, seq |-> seq, cache |-> cache, trip |-> trip ]

\* A resolver that saves every existing team with region 'Unknown'.
AfterGetOrCreateOverwriting(cache, normalized, got) ==
    IF ~got.created
    THEN Resolution([got.team EXCEPT !.region = Unknown],
                    (got.teams \ {got.team}) \cup {[got.team EXCEPT !.region = Unknown]},
                    got.seq,
                    CacheWith(cache, normalized, [got.team EXCEPT !.region = Unknown]),
                    <<normalized>>)
    ELSE Resolution(got.team, got.teams, got.seq,
                    CacheWith(cache, normalized, got.team), <<normalized>>)

\* _get_or_create_team after get_or_create returned `got`: an existing team
\* with an empty region is saved with region 'Unknown'; the handle is cached.
AfterGetOrCreate(cache, normalized, got) ==
    IF ~got.created /\ got.team.region = <<>>
    THEN Resolution([got.team EXCEPT !.region = Unknown],
                    (got.teams \ {got.team}) \cup {[got.team EXCEPT !.region = Unknown]},
                    got.seq,
                    CacheWith(cache, normalized, [got.team EXCEPT !.region = Unknown]),
                    <<normalized>>)
    ELSE Resolution(got.team, got.teams, got.seq,
                    CacheWith(cache, normalized, got.team), <<normalized>>)

\* _get_or_create_team for the trimmed name: None for a blank name, the
\* cached handle when there is one, else one get_or_create round trip.
ResolveTeam(teams, seq, cache, normalized) ==
    IF normalized = <<>> THEN Resolution(NoneObj, teams, seq, cache, <<>>)
    ELSE IF normalized \in DOMAIN cache
    THEN Resolution(cache[normalized], teams, seq, cache, <<>>)
    ELSE AfterGetOrCreate(cache, normalized, TeamGetOrCreate(teams, seq, normalized))

\* MatchScraper._get_or_create_team(team_name)
GetOrCreateTeam(teams, seq, cache, team_name) ==
    ResolveTeam(teams, seq, cache, Strip(OrEmpty(team_name)))

-----------------------------------------------------------------------------
(***************************************************************************)
(* Part 3: the cell coercers of ChampionScraper and TeamScraper            *)
(***************************************************************************)

\* Bound of the coercer part: the length of the cell texts that are drawn
\* character by character.
MaxText == 3

\* A number is kept as Python's Decimal keeps it, coefficient times a power
\* of ten, without trailing zeros so that equal values are equal records.
\* Infinity and NaN are values of float and of Decimal; an exception is a
\* record of its class.
RECURSIVE Normal(_, _, _)
Normal(neg, coef, exp) ==
    IF coef = 0 THEN [kind |-> "number", neg |-> FALSE, coef |-> 0, exp |-> 0]
    ELSE IF coef % 10 = 0 THEN Normal(neg, coef \div 10, exp + 1)
    ELSE [kind |-> "number", neg |-> neg, coef |-> coef, exp |-> exp]

Whole(n) == Normal(FALSE, n, 0)
Infinity(neg) == [kind |-> "inf", neg |-> neg]
NaN == [kind |-> "nan"]
Raised(class) == [kind |-> class]

Exceptions == {"ValueError", "TypeError", "OverflowError", "InvalidOperation"}
Raises(v) == v.kind \in Exceptions

\* The sign of a numeric literal and the text after it.
Signed(s) == s # <<>> /\ s[1] \in {"+", "-"}
Unsigned(s) == IF Signed(s) THEN Tail(s) ELSE s
Negative(s) == Signed(s) /\ s[1] = "-"

\* The mantissa and the exponent of a literal without its sign.
Mantissa(s) == Split(s, "e")[1]
Exponent(s) == Split(s, "e")[2]
IntPart(m) == Split(m, ".")[1]
FracPart(m) == IF Len(Split(m, ".")) = 2 THEN Split(m, ".")[2] ELSE <<>>

AllDigits(s) == \A i \in 1..Len(s) : IsDigit(s[i])

IsMantissa(m) ==
    /\ Len(Split(m, ".")) \in {1, 2}
    /\ AllDigits(IntPart(m)) /\ AllDigits(FracPart(m))
    /\ IntPart(m) \o FracPart(m) # <<>>

IsFinite(s) ==
    /\ Len(Split(s, "e")) \in {1, 2}
    /\ IsMantissa(Mantissa(s))
    /\ Len(Split(s, "e")) = 2 => IsDigits(Unsigned(Exponent(s)))

ExponentValue(s) ==
    IF Len(Split(s, "e")) = 1 THEN 0
    ELSE IF Negative(Exponent(s)) THEN 0 - DigitsValue(Unsigned(Exponent(s)))
    ELSE DigitsValue(Unsigned(Exponent(s)))

FiniteValue(neg, s) ==
    Normal(neg, DigitsValue(IntPart(Mantissa(s)) \o FracPart(Mantissa(s))),
           ExponentValue(s) - Len(FracPart(Mantissa(s))))

TxInf == <<"i","n","f">>
TxInfinity == <<"i","n","f","i","n","i","t","y">>
TxNan == <<"n","a","n">>

\* The numeric literals that float(text) and Decimal(text) both read, after
\* their own strip(): an optional sign, then inf, infinity, nan, or digits
\* with an optional point and an optional exponent; NoneObj for any other
\* text.
Literal(neg, s) ==
    IF s \in {TxInf, TxInfinity} THEN Infinity(neg)
    ELSE IF s = TxNan THEN NaN
    ELSE IF IsFinite(s) THEN FiniteValue(neg, s)
    ELSE NoneObj

Number(text) == Literal(Negative(Strip(text)), Lower(Unsigned(Strip(text))))

RECURSIVE NumDigits(_)
NumDigits(n) == IF n < 10 THEN 1 ELSE 1 + NumDigits(n \div 10)

\* The range of a double: texts beyond 1.8e308 read as infinity, texts below
\* 5e-324 as zero (a coefficient between 1.797e308 and 1.8e308 is outside the
\* texts drawn here).
Rounded(v) ==
    IF v.kind # "number" \/ v.coef = 0 THEN v
    ELSE IF NumDigits(v.coef) - 1 + v.exp > 308 THEN Infinity(v.neg)
    ELSE IF NumDigits(v.coef) - 1 + v.exp < 0 - 324 THEN Whole(0)
    ELSE v

\* float(text)
Float(text) ==
    IF Number(text) = NoneObj THEN Raised("ValueError") ELSE Rounded(Number(text))

\* Decimal(text)
Decimal(text) ==
    IF Number(text) = NoneObj THEN Raised("InvalidOperation") ELSE Number(text)

RECURSIVE DropDigits(_, _)
DropDigits(coef, k) == IF coef = 0 \/ k = 0 THEN coef ELSE DropDigits(coef \div 10, k - 1)

\* int(x) for a float x: truncation toward zero, OverflowError for an
\* infinity, ValueError for NaN
IntOfFloat(v) ==
    IF Raises(v) THEN v
    ELSE IF v.kind = "inf" THEN Raised("OverflowError")
    ELSE IF v.kind = "nan" THEN Raised("ValueError")
    ELSE IF v.exp >= 0 THEN v
    ELSE Normal(v.neg, DropDigits(v.coef, 0 - v.exp), 0)

\* `try: ... except classes: return default`
Except(v, classes, default) == IF v.kind \in classes THEN default ELSE v

\* ---- int(text) and timedelta ----

\* A Python int is kept as its sign and its decimal digits, since the parts
\* of a duration are not bounded by the text.
RECURSIVE Numeral(_)
Numeral(s) == IF Len(s) > 1 /\ s[1] = "0" THEN Numeral(Tail(s)) ELSE s

\* int(text): an optional sign and decimal digits, after its own strip()
PyInt(text) ==
    IF IsDigits(Unsigned(Strip(text)))
    THEN [kind |-> "int", neg |-> Negative(Strip(text)),
          digits |-> Numeral(Unsigned(Strip(text)))]
    ELSE Raised("ValueError")

\* The k-th group of five digits of an int, from the right, with its sign.
LimbBase == 10^5
LimbDigits(d, k) == SubSeq(d, IF Len(d) - 5 * k - 4 < 1 THEN 1 ELSE Len(d) - 5 * k - 4, Len(d) - 5 * k)
Limb(n, k) == (IF n.neg THEN 0 - 1 ELSE 1) * DigitsValue(LimbDigits(n.digits, k))

\* The seconds of hours, minutes and seconds, group by group.
SecondsLimb(h, m, s, k) == 3600 * Limb(h, k) + 60 * Limb(m, k) + Limb(s, k)

\* timedelta keeps whole days and the seconds of the day, and takes days
\* within -999999999..999999999 only; the seconds are
\* top * 10^10 + mid * 10^5 + low, with 10^10 = 86400 * 115740 + 64000.
DaysSeconds(days, seconds) ==
    [kind |-> "timedelta", days |-> days + (seconds \div 86400), seconds |-> seconds % 86400]

InRange(low, mid, top) ==
    IF top >= 8640 \/ top < 0 - 8640 \/ (top = 0 - 8640 /\ mid = 0 /\ low < 86400)
    THEN Raised("OverflowError")
    ELSE DaysSeconds(top * 115740 + mid, top * 64000 + mid * 13600 + low)

Carried(low, mid, top) == InRange(low, mid % LimbBase, top + (mid \div LimbBase))

\* timedelta(hours=h, minutes=m, seconds=s) for ints; a part of more than
\* fifteen digits is beyond the range whatever the shorter parts are.
Timedelta(h, m, s) ==
    IF \E n \in {h, m, s} : Len(n.digits) > 15 THEN Raised("OverflowError")
    ELSE Carried(SecondsLimb(h, m, s, 0) % LimbBase,
                 SecondsLimb(h, m, s, 1) + (SecondsLimb(h, m, s, 0) \div LimbBase),
                 SecondsLimb(h, m, s, 2))

ZeroInt == [kind |-> "int", neg |-> FALSE, digits |-> <<"0">>]

\* The first exception of the int() calls, else the timedelta of the parts.
TimedeltaOfParts(parts) ==
    IF \E i \in 1..Len(parts) : Raises(PyInt(parts[i])) THEN Raised("ValueError")
    ELSE IF Len(parts) = 2 THEN Timedelta(ZeroInt, PyInt(parts[1]), PyInt(parts[2]))
    ELSE Timedelta(PyInt(parts[1]), PyInt(parts[2]), PyInt(parts[3]))

\* The body of the try block of both duration coercers: None when the text
\* has neither two nor three parts.
DurationOf(cleaned) ==
    IF Len(Split(cleaned, ":")) \in {2, 3} THEN TimedeltaOfParts(Split(cleaned, ":"))
    ELSE NoneObj

\* ---- ChampionScraper ----

\* The test without its comparison with the placeholder '-'.
ChampionMissingWithoutDash(value) == Falsy(value) \/ Strip(value) = <<>>

\* `not value or value.strip() == '' or value == '-'`
ChampionMissing(value) == Falsy(value) \/ Strip(value) = <<>> \/ value = <<"-">>

\* ChampionScraper._parse_percentage(value)
ChampionParsePercentage(value) ==
    IF ChampionMissing(value) THEN Whole(0)
    ELSE Except(Decimal(Remove(Strip(value), "%")), {"ValueError", "TypeError"}, Whole(0))

\* ChampionScraper._parse_integer(value, default)
ChampionParseInteger(value, default) ==
    IF ChampionMissing(value) THEN default
    ELSE Except(IntOfFloat(Float(Remove(Strip(value), ","))),
                {"ValueError", "TypeError"}, default)

\* ChampionScraper._parse_float(value, default)
ChampionParseFloat(value, default) ==
    IF ChampionMissing(value) THEN default
    ELSE Except(Float(Remove(Strip(value), ",")), {"ValueError", "TypeError"}, default)

\* ChampionScraper._parse_duration(value)
ChampionParseDuration(value) ==
    IF ChampionMissing(value) THEN NoneObj
    ELSE Except(DurationOf(Strip(value)), {"ValueError", "TypeError"}, NoneObj)

\* ---- TeamScraper ----

\* `not cleaned or cleaned == '-'`
TeamMissing(cleaned) == cleaned = <<>> \/ cleaned = <<"-">>

\* (value or '').strip().replace(',', '')
Cleaned(value) == Remove(Strip(OrEmpty(value)), ",")

\* TeamScraper._parse_int(value, default)
ParseInt(value, default) ==
    IF TeamMissing(Cleaned(value)) THEN default
    ELSE Except(IntOfFloat(Float(Cleaned(value))), {"ValueError", "TypeError"}, default)

\* TeamScraper._parse_float(value, default)
ParseFloat(value, default) ==
    IF TeamMissing(Cleaned(value)) THEN default
    ELSE Except(Float(Cleaned(value)), {"ValueError", "TypeError"}, default)

\* TeamScraper._parse_percent(value)
ParsePercent(value) ==
    IF TeamMissing(Remove(Remove(Strip(OrEmpty(value)), "%"), ",")) THEN Whole(0)
    ELSE Except(Decimal(Remove(Remove(Strip(OrEmpty(value)), "%"), ",")),
                {"InvalidOperation", "ValueError"}, Whole(0))

\* TeamScraper._parse_duration(value)
ParseDuration(value) ==
    IF TeamMissing(Strip(OrEmpty(value))) THEN NoneObj
    ELSE Except(DurationOf(Strip(OrEmpty(value))), {"ValueError", "TypeError"}, NoneObj)

\* ---- the coercers applied to a cell ----

\* The characters the short cell texts are drawn from, and longer texts of
\* the kinds that the tables carry or that a malformed cell could hold.
Alphabet == {"1", "0", ".", "%", ":", "-"}
ShortTexts == UNION { [1..k -> Alphabet] : k \in 0..MaxText }

TxAbc == <<"a","b","c">>
TxDigitsAbc == <<"1","2","a","b","c">>
TxTwoPoints == <<"1",".","2",".","3">>
TxHugeExponent == <<"1","e","9","9","9">>
TxMinutes == <<"3","2",":","4","8">>
TxHours == <<"1",":","0","5",":","1","0">>
TxSixty == <<"6","0","%">>
TxFraction == <<"1","2",".","5","%">>
TxThousands == <<"1",",","2","3","4">>
TxPadded == <<" ","7"," ">>
TxPaddedDash == <<" ","-"," ">>
TxBlank == <<" ">>
TxAges == <<"1","0","0","0","0","0","0","0","0","0","0","0","0","0","0",":","0","0">>

LongTexts ==
    { TxAbc, TxDigitsAbc, TxTwoPoints, TxInf, TxNan, TxHugeExponent, TxMinutes, TxHours,
      TxSixty, TxFraction, TxThousands, TxPadded, TxPaddedDash, TxBlank, TxAges }

CoercerInputs == ShortTexts \cup LongTexts \cup {NoneText}

\* The defaults a caller passes to the integer and float coercers.
Defaults == {Whole(0), Whole(7)}

\* What is kept of a coercer call: the coercer, the cell text and the default
\* it was given (NoneObj when it takes none) and what it returned or raised.
CoercedRecord(scraper, coercer, value, default, result) ==
    [ scraper |-> scraper, coercer |-> coercer, value |-> value, default |-> default,
      result |-> result ]

Coerce(scraper, coercer, default, result) ==
    /\ doc.kind = "cell"
    /\ parsed = NoneObj
    /\ parsed' = CoercedRecord(scraper, coercer, doc.text, default, result)
    /\ UNCHANGED <<doc, team_cache, storeVars>>
    /\ UNCHANGED notParseVars

ChampionPercentage ==
    Coerce("ChampionScraper", "percent", NoneObj, ChampionParsePercentage(doc.text))

ChampionInteger ==
    \E default \in Defaults :
        Coerce("ChampionScraper", "integer", default, ChampionParseInteger(doc.text, default))

ChampionFloat ==
    \E default \in Defaults :
        Coerce("ChampionScraper", "float", default, ChampionParseFloat(doc.text, default))

ChampionDuration ==
    Coerce("ChampionScraper", "duration", NoneObj, ChampionParseDuration(doc.text))

TeamPercent == Coerce("TeamScraper", "percent", NoneObj, ParsePercent(doc.text))

TeamInt ==
    \E default \in Defaults :
        Coerce("TeamScraper", "integer", default, ParseInt(doc.text, default))

TeamFloat ==
    \E default \in Defaults :
        Coerce("TeamScraper", "float", default, ParseFloat(doc.text, default))

TeamDuration == Coerce("TeamScraper", "duration", NoneObj, ParseDuration(doc.text))

-----------------------------------------------------------------------------
(***************************************************************************)
(* Part 4: HTML documents and the table parsers                            *)
(***************************************************************************)

\* Bound of the parser part: the rows of a table section.
MaxRows == 2

\* A cell: its tag, the text outside a link, and the link <a href=...> in it
\* (NoneObj when there is none).
Cell(tag, text) == [tag |-> tag, text |-> text, a |-> NoneObj]
LinkCell(tag, text, href) ==
    [tag |-> tag, text |-> <<>>, a |-> [text |-> text, href |-> href]]

\* get_text(strip=True): the stripped text pieces, joined
GetText(cell) ==
    IF cell.a = NoneObj THEN Strip(cell.text)
    ELSE Strip(cell.a.text) \o Strip(cell.text)

\* row.find_all('td') and row.find_all(['th', 'td'])
TdCells(row) == SelectSeq(row, LAMBDA c : c.tag = "td")
ThCells(row) == SelectSeq(row, LAMBDA c : c.tag = "th")

\* The texts the documents are written with.
TxName == <<"N","a","m","e">>
TxRegion == <<" ","R","E","G","I","O","N">>
TxSeason == <<"s","e","a","s","o","n"," ">>
TxWeek == <<"W","e","e","k">>
TxT1 == <<"T","1">>
TxT1Padded == <<" ","T","1"," ">>
TxT1Lower == <<"t","1">>
TxG2 == <<"G","2">>
TxScore == <<"1"," ","-"," ","0">>
TxHref1 == <<"/","g","/","1">>
TxHref2 == <<" ","g","/","2">>
TxDate == <<"2","0","2","4","-","1","-","5">>
TxNoSuchDay == <<"2","0","2","4","-","0","2","-","3","0">>
TxNotADate == <<"s","o","o","n">>
TxS15 == <<"s","1","5">>

\* The rows the documents are built from (a row is its sequence of cells).
HeaderRowTh ==
    << Cell("th", <<>>), Cell("th", TxName), Cell("th", TxRegion), Cell("th", TxSeason),
       Cell("th", TxWeek), Cell("th", TxWeek), Cell("th", TxWeek) >>
HeaderRowTd ==
    << Cell("td", <<>>), Cell("td", TxName), Cell("td", TxRegion), Cell("td", TxSeason),
       Cell("td", TxWeek), Cell("td", TxWeek), Cell("td", TxWeek) >>
DataRow(href, one, two, date) ==
    << (IF href = NoneText THEN Cell("td", <<>>) ELSE LinkCell("td", <<>>, href)),
       one, Cell("td", TxScore), Cell("td", two),
       Cell("td", TxWeek), Cell("td", <<>>), Cell("td", date) >>
RowGame1 == DataRow(TxHref1, LinkCell("td", TxT1Padded, TxHref1), TxG2, TxDate)
RowGame2 == DataRow(TxHref2, Cell("td", TxT1), TxT1Lower, TxNotADate)
RowNoLink == DataRow(NoneText, Cell("td", TxG2), TxT1, <<>>)
RowBlankNames == DataRow(TxHref1, Cell("td", <<" ">>), <<>>, TxDate)
RowNoSuchDay == DataRow(TxHref1, Cell("td", TxT1), TxG2, TxNoSuchDay)
RowShort == << Cell("td", TxT1), Cell("td", TxG2) >>

RowKinds ==
    { HeaderRowTh, HeaderRowTd, RowGame1, RowGame2, RowNoLink, RowBlankNames,
      RowNoSuchDay, RowShort }

RowLists == UNION { [1..n -> RowKinds] : n \in 0..MaxRows }

\* A table: its class and its sections in document order; a section is a
\* <thead>, a <tbody>, or rows standing directly in the table ("bare").
Section(kind, rows) == [kind |-> kind, rows |-> rows]

TableShapes(rows) ==
    { << Section("bare", rows) >>,
      << Section("tbody", rows) >>,
      << Section("thead", <<HeaderRowTh>>), Section("tbody", rows) >>,
      << Section("thead", <<>>), Section("tbody", rows) >>,
      << Section("thead", <<HeaderRowTh>>), Section("bare", rows) >> }

TableClasses == {"playerslist", "table_list", "other"}

Tables ==
    { [class |-> c, sections |-> ss] :
        c \in TableClasses, ss \in UNION { TableShapes(rows) : rows \in RowLists } }

\* A document: whether BeautifulSoup accepts it, and its tables in order.
Documents ==
    { [parses |-> FALSE, tables |-> <<>>], [parses |-> TRUE, tables |-> <<>>] }
    \cup { [parses |-> TRUE, tables |-> <<t>>] : t \in Tables }

\* BaseScraper.parse_html: the soup, or NoneObj when BeautifulSoup raises.
ParseHtml(html) == IF html.parses THEN html ELSE NoneObj

\* soup.find('table', class_=cls); soup.find('table') when cls is None
FindTable(soup, cls) ==
    LET hits == { i \in 1..Len(soup.tables) : cls = None \/ soup.tables[i].class = cls }
    IN  IF hits = {} THEN NoneObj
        ELSE soup.tables[CHOOSE i \in hits : \A j \in hits : i <= j]

\* table.find(kind) for kind thead or tbody: the first such section, or NoneObj
FindSection(table, kind) ==
    LET hits == { i \in 1..Len(table.sections) : table.sections[i].kind = kind }
    IN  IF hits = {} THEN NoneObj
        ELSE table.sections[CHOOSE i \in hits : \A j \in hits : i <= j]

\* table.find_all('tr'): every row of the table, in document order
RECURSIVE RowsOfSections(_)
RowsOfSections(sections) ==
    IF sections = <<>> THEN <<>>
    ELSE sections[1].rows \o RowsOfSections(Tail(sections))

AllRows(table) == RowsOfSections(table.sections)

\* table.find("tbody") or table, then .find_all("tr")
BodyRows(table) ==
    IF FindSection(table, "tbody") # NoneObj
    THEN FindSection(table, "tbody").rows
    ELSE AllRows(table)

\* ---- MatchScraper ----

NoneInt == 0 - 1

\* MatchScraper._parse_score: '1-0' -> <<1, 0>>; <<NoneInt, NoneInt>> for None, None
ParseScore(score_text) ==
    LET cleaned == Strip(OrEmpty(score_text))
        parts == Split(Remove(cleaned, " "), "-")
    IN  IF cleaned = <<>> THEN <<NoneInt, NoneInt>>
        ELSE IF Len(parts) # 2 THEN <<NoneInt, NoneInt>>
        ELSE IF IsDigits(parts[1]) /\ IsDigits(parts[2])
        THEN <<DigitsValue(parts[1]), DigitsValue(parts[2])>>
        ELSE <<NoneInt, NoneInt>>

IsLeapYear(y) == (y % 4 = 0 /\ y % 100 # 0) \/ y % 400 = 0

DaysInMonth(y, m) ==
    IF m = 2 THEN (IF IsLeapYear(y) THEN 29 ELSE 28)
    ELSE IF m \in {4, 6, 9, 11} THEN 30 ELSE 31

\* django.utils.dateparse.parse_date: a date for YYYY-M-D, None for text of
\* another form, ValueError for a well-formed text that names no day.
ParseDate(value) ==
    LET parts == Split(value, "-")
        wellFormed == /\ Len(parts) = 3
                      /\ \A i \in 1..3 : IsDigits(parts[i])
                      /\ Len(parts[1]) = 4
                      /\ Len(parts[2]) \in 1..2
                      /\ Len(parts[3]) \in 1..2
        y == DigitsValue(parts[1])
        m == DigitsValue(parts[2])
        d == DigitsValue(parts[3])
    IN  IF ~wellFormed THEN [kind |-> "None"]
        ELSE IF y >= 1 /\ m \in 1..12 /\ d \in 1..DaysInMonth(y, m)
        THEN [kind |-> "date", year |-> y, month |-> m, day |-> d]
        ELSE [kind |-> "ValueError"]

\* date.isoformat(): YYYY-MM-DD
IsoFormat(date) ==
    << DigitChar(date.year \div 1000), DigitChar((date.year \div 100) % 10),
       DigitChar((date.year \div 10) % 10), DigitChar(date.year % 10), "-",
       DigitChar(date.month \div 10), DigitChar(date.month % 10), "-",
       DigitChar(date.day \div 10), DigitChar(date.day % 10) >>

\* MatchScraper._normalize_date: the ISO text, NoneText, or the ValueError of
\* parse_date, which nothing here catches.
NormalizeDate(date_text) ==
    LET cleaned == Strip(OrEmpty(date_text))
        parsed_date == ParseDate(cleaned)
    IN  IF cleaned = <<>> THEN [raised |-> FALSE, value |-> NoneText]
        ELSE IF parsed_date.kind = "ValueError" THEN [raised |-> TRUE, value |-> NoneText]
        ELSE IF parsed_date.kind = "None" THEN [raised |-> FALSE, value |-> NoneText]
        ELSE [raised |-> FALSE, value |-> IsoFormat(parsed_date)]

GolGG == <<"h","t","t","p","s",":","/","/","g","o","l",".","g","g">>

\* urljoin("https://gol.gg", href) for a path, absolute or relative
UrlJoin(base, href) ==
    IF href[1] = "/" THEN base \o href ELSE base \o <<"/">> \o href

\* The state a parse run threads through the rows: the rows emitted, whether
\* an exception ended the run, the teams table, the id sequence, the cache and
\* the names that went to the store.
ParseState(teams, seq, cache) ==
    [ rows |-> <<>>, raised |-> FALSE, teams |-> teams, seq |-> seq,
      cache |-> cache, trips |-> <<>> ]

\* MatchRow(...) as the row loop builds it, no team attached yet.
NewMatchRow(cells, raw_href, score, date_text, date_iso) ==
    [ match_href |-> raw_href,
      match_url |-> IF raw_href # <<>> THEN UrlJoin(GolGG, raw_href) ELSE <<>>,
      team_one_name |-> GetText(cells[2]), team_two_name |-> GetText(cells[4]),
      team_one_score |-> score[1], team_two_score |-> score[2],
      week |-> GetText(cells[5]), patch |-> GetText(cells[6]),
      date_text |-> date_text, date_iso |-> date_iso,
      team_one_resolved_name |-> NoneText, team_two_resolved_name |-> NoneText,
      team_one_id |-> 0, team_two_id |-> 0 ]

\* The assignments of _attach_team_objects, and the row appended to rows.
AttachResolved(st, match_row, one, two) ==
    [ rows |-> Append(st.rows,
          [match_row EXCEPT
              !.team_one_resolved_name = IF one.team # NoneObj THEN one.team.name ELSE @,
              !.team_one_id = IF one.team # NoneObj THEN one.team.id ELSE @,
              !.team_two_resolved_name = IF two.team # NoneObj THEN two.team.name ELSE @,
              !.team_two_id = IF two.team # NoneObj THEN two.team.id ELSE @]),
      raised |-> FALSE,
      teams |-> two.teams, seq |-> two.seq, cache |-> two.cache,
      trips |-> st.trips \o one.trip \o two.trip ]

ResolveTeamTwo(st, match_row, one) ==
    AttachResolved(st, match_row, one,
        GetOrCreateTeam(one.teams, one.seq, one.cache, match_row.team_two_name))

\* MatchScraper._attach_team_objects(match_row)
AttachTeamObjects(st, match_row) ==
    ResolveTeamTwo(st, match_row,
        GetOrCreateTeam(st.teams, st.seq, st.cache, match_row.team_one_name))

\* The row loop from the MatchRow construction on: the ValueError of
\* _normalize_date ends the run.
EmitMatchRow(st, cells, raw_href, date_text, date_iso) ==
    IF date_iso.raised THEN [st EXCEPT !.raised = TRUE]
    ELSE AttachTeamObjects(st,
             NewMatchRow(cells, raw_href, ParseScore(GetText(cells[3])), date_text,
                         date_iso.value))

ParseMatchCells(cells, st) ==
    IF Len(cells) < 7 THEN st
    ELSE IF GetText(cells[2]) = <<>> /\ GetText(cells[4]) = <<>> THEN st
    ELSE EmitMatchRow(st, cells,
             IF cells[1].a # NoneObj THEN Strip(OrEmpty(cells[1].a.href)) ELSE <<>>,
             GetText(cells[7]), NormalizeDate(GetText(cells[7])))

\* The body of the row loop of _parse_match_table.
ParseMatchRow(row, st) == ParseMatchCells(TdCells(row), st)

RECURSIVE ParseMatchRows(_, _, _)
ParseMatchRows(trs, i, st) ==
    IF i > Len(trs) \/ st.raised THEN st
    ELSE ParseMatchRows(trs, i + 1, ParseMatchRow(trs[i], st))

\* table.find_all("th"): the header cells of every row of the table
RECURSIVE HeaderCells(_)
HeaderCells(trs) ==
    IF trs = <<>> THEN <<>> ELSE ThCells(trs[1]) \o HeaderCells(Tail(trs))

\* What _parse_match_table gives: (rows, headers, error); here also whether
\* it raised, and the store and cache as the run left them.
MatchTableResult(rows, headers, error, raised, state) ==
    [ rows |-> rows, headers |-> headers, error |-> error, raised |-> raised,
      state |-> state ]

\* The end of _parse_match_table, after the row loop.
AfterMatchRows(st, header_cells) ==
    IF st.raised THEN MatchTableResult(<<>>, <<>>, NoneText, TRUE, st)
    ELSE MatchTableResult(st.rows,
             [i \in 1..Len(header_cells) |-> GetText(header_cells[i])],
             IF st.rows = <<>> THEN <<"No match rows were parsed from the table.">>
             ELSE NoneText,
             FALSE, st)

ParseLocatedMatchTable(table, idle) ==
    IF table = NoneObj
    THEN MatchTableResult(<<>>, <<>>,
             <<"No table with class \"table_list\" found on the page.">>, FALSE, idle)
    ELSE AfterMatchRows(ParseMatchRows(BodyRows(table), 1, idle),
                        HeaderCells(AllRows(table)))

ParseMatchSoup(soup, idle) ==
    IF soup = NoneObj
    THEN MatchTableResult(<<>>, <<>>, <<"Failed to parse HTML content for match list.">>,
                          FALSE, idle)
    ELSE ParseLocatedMatchTable(FindTable(soup, "table_list"), idle)

\* MatchScraper._parse_match_table(html)
ParseMatchTable(html, teams, seq, cache) ==
    ParseMatchSoup(ParseHtml(html), ParseState(teams, seq, cache))

\* ---- TeamScraper ----

\* TeamScraper.COLUMN_MAPPING: normalised header -> (field name, parser name)
COLUMN_MAPPING ==
    {
      [header |-> <<"n","a","m","e">>, field |-> "team_name", parser |-> None],
      [header |-> <<"s","e","a","s","o","n">>, field |-> "season", parser |-> None],
      [header |-> <<"r","e","g","i","o","n">>, field |-> "region", parser |-> None],
      [header |-> <<"g","a","m","e","s">>, field |-> "games", parser |-> "_parse_int"],
      [header |-> <<"w","i","n"," ","r","a","t","e">>, field |-> "winrate", parser |-> "_parse_percent"],
      [header |-> <<"w","i","n","r","a","t","e">>, field |-> "winrate", parser |-> "_parse_percent"],
      [header |-> <<"k",":","d">>, field |-> "kill_death_ratio", parser |-> "_parse_float"],
      [header |-> <<"g","p","m">>, field |-> "gpm", parser |-> "_parse_int"],
      [header |-> <<"g","d","m">>, field |-> "gdm", parser |-> "_parse_int"],
      [header |-> <<"g","a","m","e"," ","d","u","r","a","t","i","o","n">>, field |-> "game_duration", parser |-> "_parse_duration"],
      [header |-> <<"k","i","l","l","s"," ","/"," ","g","a","m","e">>, field |-> "kills_per_game", parser |-> "_parse_float"],
      [header |-> <<"d","e","a","t","h","s"," ","/"," ","g","a","m","e">>, field |-> "deaths_per_game", parser |-> "_parse_float"],
      [header |-> <<"t","o","w","e","r","s"," ","k","i","l","l","e","d">>, field |-> "towers_killed", parser |-> "_parse_float"],
      [header |-> <<"t","o","w","e","r","s"," ","l","o","s","t">>, field |-> "towers_lost", parser |-> "_parse_float"],
      [header |-> <<"f","b","%">>, field |-> "first_blood_percent", parser |-> "_parse_percent"],
      [header |-> <<"f","t","%">>, field |-> "first_tower_percent", parser |-> "_parse_percent"],
      [header |-> <<"f","o","s","%">>, field |-> "first_objective_percent", parser |-> "_parse_percent"],
      [header |-> <<"d","r","a","p","g">>, field |-> "dragons_per_game", parser |-> "_parse_float"],
      [header |-> <<"d","r","a","%">>, field |-> "dragon_control_percent", parser |-> "_parse_percent"],
      [header |-> <<"v","g","p","g">>, field |-> "void_grub_per_game", parser |-> "_parse_float"],
      [header |-> <<"h","e","r","%">>, field |-> "herald_percent", parser |-> "_parse_percent"],
      [header |-> <<"a","t","a","k","h","a","n","%">>, field |-> "atakhan_percent", parser |-> "_parse_percent"],
      [header |-> <<"d","r","a","@","1","5">>, field |-> "dragons_at_15", parser |-> "_parse_float"],
      [header |-> <<"t","d","@","1","5">>, field |-> "tower_difference_15", parser |-> "_parse_float"],
      [header |-> <<"g","d","@","1","5">>, field |-> "gold_difference_15", parser |-> "_parse_int"],
      [header |-> <<"p","p","g">>, field |-> "points_per_game", parser |-> "_parse_float"],
      [header |-> <<"n","a","s","h","p","g">>, field |-> "nashors_per_game", parser |-> "_parse_float"],
      [header |-> <<"n","a","s","h","%">>, field |-> "nashor_percent", parser |-> "_parse_percent"],
      [header |-> <<"c","s","m">>, field |-> "csm", parser |-> "_parse_float"],
      [header |-> <<"d","p","m">>, field |-> "dpm", parser |-> "_parse_int"],
      [header |-> <<"w","p","m">>, field |-> "wards_per_minute", parser |-> "_parse_float"],
      [header |-> <<"v","w","p","m">>, field |-> "vision_wards_per_minute", parser |-> "_parse_float"],
      [header |-> <<"w","c","p","m">>, field |-> "wards_cleared_per_minute", parser |-> "_parse_float"] }

\* The header trimmed but compared in the case it is written in.
NormalizeHeaderKeepingCase(header) == Strip(OrEmpty(header))

\* TeamScraper._normalize_header
NormalizeHeader(header) == Lower(Strip(OrEmpty(header)))

\* f'column_{index + 1}'
ColumnKey(n) == <<"c","o","l","u","m","n","_">> \o <<DigitChar(n)>>

\* The key of cell i of a body row: its header text, or column_<i>.
RowKey(headers, i) ==
    IF i <= Len(headers) /\ headers[i] # <<>> THEN headers[i] ELSE ColumnKey(i)

\* row_data as a dict: `keys` in insertion order (a key set again keeps its
\* place), `value` with the value set last.
DictOf(keys, values) ==
    [ keys |-> SelectSeq([i \in 1..Len(keys) |->
                             IF \A j \in 1..(i - 1) : keys[j] # keys[i]
                             THEN keys[i] ELSE NoneText],
                         LAMBDA k : k # NoneText),
      value |-> [ k \in { keys[i] : i \in 1..Len(keys) } |->
                    values[CHOOSE i \in 1..Len(keys) :
                              keys[i] = k /\ \A j \in (i + 1)..Len(keys) : keys[j] # k] ] ]

\* row_data of a body row with the given cell texts
RowData(headers, cell_values) ==
    DictOf([i \in 1..Len(cell_values) |-> RowKey(headers, i)], cell_values)

\* COLUMN_MAPPING.get(normalized): the field of a header, None without one
MappedField(header) ==
    IF \E c \in COLUMN_MAPPING : c.header = NormalizeHeader(header)
    THEN (CHOOSE c \in COLUMN_MAPPING : c.header = NormalizeHeader(header)).field
    ELSE None

\* The parser of a header that has a field, None for a field kept as text.
MappedParser(header) ==
    (CHOOSE c \in COLUMN_MAPPING : c.header = NormalizeHeader(header)).parser

\* parser(value) with parser = getattr(self, parser_name), each coercer with
\* its own default; (value or '').strip() without a parser
ApplyParser(parser, value) ==
    CASE parser = None -> Strip(OrEmpty(value))
      [] parser = "_parse_int" -> ParseInt(value, Whole(0))
      [] parser = "_parse_float" -> ParseFloat(value, Whole(0))
      [] parser = "_parse_percent" -> ParsePercent(value)
      [] parser = "_parse_duration" -> ParseDuration(value)

\* The value that column i of the row gives its field.
MappedValue(row, i) == ApplyParser(MappedParser(row.keys[i]), row.value[row.keys[i]])

\* The loop of _convert_row_to_stats over row.items(): `fields` holds the
\* mapped field of each key, in order; a field set again takes the later value.
MappedStats(row, fields) ==
    [ f \in { fields[i] : i \in 1..Len(fields) } \ {None} |->
        MappedValue(row, CHOOSE i \in 1..Len(fields) :
                             fields[i] = f /\ \A j \in (i + 1)..Len(fields) : fields[j] # f) ]

\* The fields that a coercer fills, and whether one of them holds what the
\* coercer raised instead of a value: the exception leaves
\* _convert_row_to_stats and _extract_table_data.
TextFields == { c.field : c \in { m \in COLUMN_MAPPING : m.parser = None } }
StatsRaised(stats) == \E f \in DOMAIN stats \ TextFields : Raises(stats[f])
ExtractRaised(r) == \E i \in 1..Len(r.team_stats) : StatsRaised(r.team_stats[i])

\* The caller's season put into the stats whenever it is given.
WithSeasonAlways(stats, season_name) ==
    IF season_name # NoneText /\ season_name # <<>>
    THEN [ f \in DOMAIN stats \cup {"season"} |->
              IF f = "season" THEN season_name ELSE stats[f] ]
    ELSE stats

\* if season_name and not stats.get('season'): stats['season'] = season_name
WithSeason(stats, season_name) ==
    IF /\ season_name # NoneText /\ season_name # <<>>
       /\ ("season" \notin DOMAIN stats \/ stats["season"] = <<>>)
    THEN [ f \in DOMAIN stats \cup {"season"} |->
              IF f = "season" THEN season_name ELSE stats[f] ]
    ELSE stats

\* TeamScraper._convert_row_to_stats(row, season_name)
ConvertRowToStats(row, season_name) ==
    WithSeason(MappedStats(row, [i \in 1..Len(row.keys) |-> MappedField(row.keys[i])]),
               season_name)

\* Whether _extract_table_data finds a header row: the table has a row.
HasHeaderRow(table) == AllRows(table) # <<>>

\* The header row of _extract_table_data: the first row of <thead>, else the
\* first row of the table.
HeaderRow(table) ==
    IF FindSection(table, "thead") # NoneObj /\ FindSection(table, "thead").rows # <<>>
    THEN FindSection(table, "thead").rows[1]
    ELSE AllRows(table)[1]

\* all_rows[header_index + 1:], header_index = all_rows.index(header_row)
RowsAfter(all_rows, header_row) ==
    SubSeq(all_rows,
           (CHOOSE i \in 1..Len(all_rows) :
               all_rows[i] = header_row /\ \A j \in 1..(i - 1) : all_rows[j] # header_row) + 1,
           Len(all_rows))

\* The body rows of _extract_table_data: the rows of <tbody>, else the rows
\* after the first row equal to the header row.
TeamBodyRows(table) ==
    IF FindSection(table, "tbody") # NoneObj THEN FindSection(table, "tbody").rows
    ELSE IF HasHeaderRow(table) THEN RowsAfter(AllRows(table), HeaderRow(table))
    ELSE AllRows(table)

\* [cell.get_text(strip=True) for cell in cells]
CellTexts(cells) == [i \in 1..Len(cells) |-> GetText(cells[i])]

\* The return value of _extract_table_data for the rows collected.
TableData(headers, rows, season_name) ==
    [ error |-> NoneText,
      table |-> [headers |-> headers, rows |-> rows],
      team_stats |-> SelectSeq([r \in 1..Len(rows) |-> ConvertRowToStats(rows[r], season_name)],
                               LAMBDA stats : DOMAIN stats # {}) ]

\* The row loop of _extract_table_data: rows without td cells are passed over.
ExtractRows(headers, body_rows, season_name) ==
    TableData(headers,
              [r \in 1..Len(body_rows) |-> RowData(headers, CellTexts(TdCells(body_rows[r])))],
              season_name)

ExtractLocatedTable(table, season_name) ==
    IF table = NoneObj
    THEN [ error |-> <<"No table with class \"playerslist\" found on the page">>,
           table |-> NoneObj, team_stats |-> <<>> ]
    ELSE ExtractRows(IF HasHeaderRow(table) THEN CellTexts(HeaderRow(table)) ELSE <<>>,
                     SelectSeq(TeamBodyRows(table), LAMBDA row : TdCells(row) # <<>>),
                     season_name)

ExtractSoup(soup, season_name) ==
    IF soup = NoneObj
    THEN [ error |-> <<"Failed to parse HTML content">>, table |-> NoneObj,
           team_stats |-> <<>> ]
    ELSE ExtractLocatedTable(FindTable(soup, "playerslist"), season_name)

\* TeamScraper._extract_table_data(html, season_name)
ExtractTableData(html, season_name) == ExtractSoup(ParseHtml(html), season_name)

\* ---- TournamentScraper ----

\* The tournament of a row with at least seven cells; NoneObj for a blank name.
TournamentOf(name, href, cells, season) ==
    IF name = <<>> THEN NoneObj
    ELSE [ season |-> season, name |-> name, href |-> href,
           region |-> GetText(cells[3]), last_game |-> GetText(cells[7]) ]

ParseTournamentCells(cells, season) ==
    IF Len(cells) < 7 THEN NoneObj
    ELSE IF cells[2].a # NoneObj
    THEN TournamentOf(Strip(Strip(cells[2].a.text)), Strip(cells[2].a.href), cells, season)
    ELSE TournamentOf(Strip(GetText(cells[2])), <<>>, cells, season)

\* The body of the row loop of _parse_tournament_table: the tournament of the
\* row, or NoneObj for a row that is passed over.
ParseTournamentRow(row, season) == ParseTournamentCells(TdCells(row), season)

\* [t["last_game"] for t in tournaments if t.get("last_game")]
LastGameDates(dated) == [i \in 1..Len(dated) |-> dated[i].last_game]

\* The return value of _parse_tournament_table for the tournaments collected.
TournamentTableResult(tournaments, season, file_name) ==
    IF tournaments = <<>>
    THEN [ season |-> season, file_name |-> file_name, tournaments |-> <<>>,
           count |-> 0, error |-> NoneText ]
    ELSE [ season |-> season, file_name |-> file_name, tournaments |-> tournaments,
           count |-> Len(tournaments), error |-> NoneText,
           last_game_dates |->
               LastGameDates(SelectSeq(tournaments, LAMBDA t : t.last_game # <<>>)) ]

ParseTournamentRows(trs, season, file_name) ==
    TournamentTableResult(
        SelectSeq([i \in 1..Len(trs) |-> ParseTournamentRow(trs[i], season)],
                  LAMBDA t : t # NoneObj),
        season, file_name)

ParseLocatedTournamentTable(table, season, file_name) ==
    IF table = NoneObj
    THEN [ season |-> season, file_name |-> file_name, tournaments |-> <<>>,
           count |-> 0, error |-> <<"No <table> element found in HTML content">> ]
    ELSE ParseTournamentRows(BodyRows(table), season, file_name)

ParseTournamentSoup(soup, season, file_name) ==
    IF soup = NoneObj
    THEN [ season |-> season, file_name |-> file_name, tournaments |-> <<>>,
           count |-> 0, error |-> <<"Failed to parse HTML content">> ]
    ELSE ParseLocatedTournamentTable(FindTable(soup, None), season, file_name)

\* TournamentScraper._parse_tournament_table(html, season, file_name)
ParseTournamentTable(html, season, file_name) ==
    ParseTournamentSoup(ParseHtml(html), season, file_name)

\* ---- the parsers applied to a document ----

\* What is kept of a parser call: the parser, the table it looked for, the
\* error and the records it returned, and whether it raised instead.
ParsedRecord(parser, target, raised, error, count, result) ==
    [ parser |-> parser, target |-> target, raised |-> raised, error |-> error,
      count |-> count, result |-> result ]

AfterTeamExtract(r) ==
    parsed' = ParsedRecord("team", "playerslist", ExtractRaised(r), r.error,
                            Len(r.team_stats), r)

TeamExtractTableData ==
    \E season_name \in {NoneText, TxS15} :
        /\ parsed = NoneObj
        /\ AfterTeamExtract(ExtractTableData(doc, season_name))
        /\ UNCHANGED <<doc, team_cache, storeVars>>
        /\ UNCHANGED notParseVars

\* The parser's return value and its writes, as the caller and the store see them.
AfterMatchParse(r) ==
    /\ parsed' = ParsedRecord("match", "table_list", r.raised, r.error, Len(r.rows),
                              [rows |-> r.rows, headers |-> r.headers,
                               trips |-> r.state.trips])
    /\ store' = [store EXCEPT !.teams = r.state.teams]
    /\ ids' = [ids EXCEPT !.teams = r.state.seq]
    /\ team_cache' = r.state.cache

MatchParseTable ==
    /\ parsed = NoneObj
    /\ AfterMatchParse(ParseMatchTable(doc, store.teams, ids.teams, team_cache))
    /\ UNCHANGED doc
    /\ UNCHANGED notParseVars

AfterTournamentParse(r) ==
    parsed' = ParsedRecord("tournament", None, FALSE, r.error, r.count, r)

TournamentParseTable ==
    /\ parsed = NoneObj
    /\ AfterTournamentParse(ParseTournamentTable(doc, TxS15, "tournament_list_s15.html"))
    /\ UNCHANGED <<doc, team_cache, storeVars>>
    /\ UNCHANGED notParseVars

-----------------------------------------------------------------------------
(***************************************************************************)
(* Part 5: MatchScraper.scrape, with the store edited through the REST API *)
(***************************************************************************)

\* Bounds of the match scrape part: the scrape calls on the one MatchScraper
\* instance, and the edits of the teams table made through the REST API.
MaxRuns == 2
MaxEdits == 1

TxLEC == <<"L","E","C">>
TxLCK1 == <<"L","C","K"," ","1">>
TxKR == <<"K","R">>

\* A row of the tournaments table.
TournamentRow(id, name, season_name) ==
    [ id |-> id, name |-> name, season_name |-> season_name, tier |-> <<>>,
      region |-> <<>>, last_game_date |-> NoneText, details_url |-> <<>> ]

\* A store with two tournaments to scrape the matches of.
StoreWithTournaments ==
    [EmptyStore EXCEPT !.tournaments =
        { TournamentRow(1, TxLEC, TxS15), TournamentRow(2, TxLCK1, TxS15) }]

\* The order of characters that order_by("name") sorts by.
CharOrder == <<" ", ".">> \o Digits \o UpperCase \o <<"_">> \o LowerCase
CharRank(c) == CHOOSE k \in 1..Len(CharOrder) : CharOrder[k] = c

RECURSIVE TextLess(_, _)
TextLess(a, b) ==
    IF b = <<>> THEN FALSE
    ELSE IF a = <<>> THEN TRUE
    ELSE IF a[1] = b[1] THEN TextLess(Tail(a), Tail(b))
    ELSE CharRank(a[1]) < CharRank(b[1])

\* list(qs.order_by("name"))
RECURSIVE OrderByName(_)
OrderByName(rows) ==
    IF rows = {} THEN <<>>
    ELSE LET first == CHOOSE r \in rows : \A o \in rows : ~TextLess(o.name, r.name)
         IN  <<first>> \o OrderByName(rows \ {first})

\* MatchScraper._load_tournaments: an empty (or None) filter selects all.
LoadTournaments(tournaments, tournament_names, tournament_ids) ==
    OrderByName({ t \in tournaments :
        /\ tournament_names # <<>> =>
               \E i \in 1..Len(tournament_names) : tournament_names[i] = t.name
        /\ tournament_ids # <<>> =>
               \E i \in 1..Len(tournament_ids) : tournament_ids[i] = t.id })

\* urllib.parse.quote(text, safe=""): letters and digits stay, a space becomes %20
RECURSIVE Quote(_)
Quote(s) ==
    IF s = <<>> THEN <<>>
    ELSE (IF s[1] = " " THEN <<"%","2","0">> ELSE <<s[1]>>) \o Quote(Tail(s))

\* MatchScraper.BASE_URL
BASE_URL == <<"https://gol.gg/tournament/tournament-matchlist", "/">>

\* url + "/" unless it ends with one
WithSlash(url) == IF url[Len(url)] = "/" THEN url ELSE url \o <<"/">>

\* MatchScraper._build_tournament_url(tournament_name)
BuildTournamentUrl(tournament_name) ==
    WithSlash(BASE_URL \o Quote(Strip(OrEmpty(tournament_name))))

\* The pages that gol.gg serves for a tournament.
PageOf(rows) ==
    [ parses |-> TRUE,
      tables |-> << [class |-> "table_list", sections |-> <<Section("tbody", rows)>>] >> ]

MatchPages ==
    { PageOf(<<RowGame1, RowGame2>>), PageOf(<<RowGame1>>), PageOf(<<RowGame2>>),
      PageOf(<<>>), PageOf(<<RowNoSuchDay>>), [parses |-> TRUE, tables |-> <<>>] }

\* What a request for a tournament's match list meets.
Serves ==
    { [net |-> "timeout", page |-> NoneObj] }
    \cup { [net |-> "ok", page |-> p] : p \in MatchPages }

\* Whether the fetch or the parse of a source fails: the request fails, or the
\* page has no match table, or a row of it cannot be parsed.
SourceFails(serve) ==
    \/ serve.net # "ok"
    \/ ParseHtml(serve.page) = NoneObj
    \/ FindTable(serve.page, "table_list") = NoneObj
    \/ ParseMatchTable(serve.page, {}, 1, <<>>).raised

\* The state of one scrape call: the fetcher, the teams table, its id
\* sequence and the cache as the call leaves them, the payload's match_sets
\* and errors, whether an exception ended the call, and the names that went
\* to the store.
RunState(fst, teams, seq, cache) ==
    [ fetcher |-> fst, teams |-> teams, seq |-> seq, cache |-> cache,
      match_sets |-> <<>>, errors |-> <<>>, raised |-> FALSE, trips |-> <<>> ]

\* The result of _scrape_matches_for_tournament when fetch_page gave None.
FetchFailedSet(tournament, url) ==
    [ tournament_id |-> tournament.id, tournament_name |-> tournament.name,
      tournament_season |-> tournament.season_name, source_url |-> url,
      matches |-> <<>>, count |-> 0,
      error |-> <<"Failed to fetch match list for tournament '">>
                \o tournament.name \o <<"'">> ]

\* The result of _scrape_matches_for_tournament for a page that was fetched.
ParsedSet(tournament, url, response, r) ==
    [ tournament_id |-> tournament.id, tournament_name |-> tournament.name,
      tournament_season |-> tournament.season_name, source_url |-> url,
      status_code |-> response.status_code, table_headers |-> r.headers,
      matches |-> r.rows, count |-> Len(r.rows), error |-> r.error ]

\* The loop body of scrape after _scrape_matches_for_tournament returned:
\* a non-empty error goes to payload["errors"], the result to match_sets.
Collect(rs, result) ==
    [rs EXCEPT !.match_sets = Append(@, result),
               !.errors = IF result.error # NoneText /\ result.error # <<>>
                          THEN Append(@, result.error) ELSE @]

\* The scrape call after the parser worked on the page: its writes to the
\* store and the cache stay; an exception of the parser ends the call.
AfterParse(rs, tournament, url, response, r) ==
    IF r.raised
    THEN [rs EXCEPT !.raised = TRUE, !.teams = r.state.teams, !.seq = r.state.seq,
                    !.cache = r.state.cache, !.trips = @ \o r.state.trips]
    ELSE Collect([rs EXCEPT !.teams = r.state.teams, !.seq = r.state.seq,
                            !.cache = r.state.cache, !.trips = @ \o r.state.trips],
                 ParsedSet(tournament, url, response, r))

AfterFetchPage(rs, tournament, url, f, page) ==
    IF f.raised THEN [rs EXCEPT !.raised = TRUE]
    ELSE IF f.value = NoneObj THEN Collect(rs, FetchFailedSet(tournament, url))
    ELSE AfterParse(rs, tournament, url, f.value,
                    ParseMatchTable(page, rs.teams, rs.seq, rs.cache))

FetchForTournament(rs, tournament, url, f, page) ==
    AfterFetchPage([rs EXCEPT !.fetcher = FetcherAfter(@, f)], tournament, url, f, page)

\* MatchScraper._scrape_matches_for_tournament(tournament), in the loop of
\* scrape; the request takes no time.
ScrapeMatchesForTournament(rs, tournament, url, serve) ==
    FetchForTournament(rs, tournament, url,
        FetchPage(rs.fetcher.last_request_time, rs.fetcher.clock, delay,
                  [form |-> "url", name |-> url], serve.net, 0),
        serve.page)

\* for tournament in tournaments: ...
RECURSIVE ScrapeTournaments(_, _, _, _)
ScrapeTournaments(tournaments, serves, i, rs) ==
    IF i > Len(tournaments) \/ rs.raised THEN rs
    ELSE ScrapeTournaments(tournaments, serves, i + 1,
             ScrapeMatchesForTournament(rs, tournaments[i],
                 BuildTournamentUrl(tournaments[i].name), serves[tournaments[i].id]))

\* The filters that scrape is called with (None and [] both select all).
NameFilters == { <<>>, <<TxLEC>> }
IdFilters == { <<>>, <<2>> }

\* What is kept of a scrape call: its number on this instance, whether an
\* exception left it, the payload it returned (NoneObj when it raised), the
\* tournaments it had to process with what each request met, the names that
\* went to the store, and the teams table as the call left it.
MatchRun(rs, tournaments, serves, tournament_names, tournament_ids) ==
    [ scraper |-> "match",
      number |-> nruns + 1,
      raised |-> rs.raised,
      payload |->
          IF rs.raised THEN NoneObj
          ELSE [ base_url |-> BASE_URL,
                 requested_tournament_names |->
                     IF tournament_names # <<>> THEN tournament_names ELSE NoneText,
                 requested_tournament_ids |->
                     IF tournament_ids # <<>> THEN tournament_ids ELSE NoneText,
                 tournaments_processed |-> Len(tournaments),
                 match_sets |-> rs.match_sets,
                 errors |-> rs.errors ],
      sources |-> [i \in 1..Len(tournaments) |-> tournaments[i].name],
      served |-> [i \in 1..Len(tournaments) |-> serves[tournaments[i].id]],
      trips |-> rs.trips,
      teams |-> rs.teams ]

AfterMatchScrape(rs, tournaments, serves, tournament_names, tournament_ids) ==
    /\ SetFetcher(rs.fetcher)
    /\ store' = [store EXCEPT !.teams = rs.teams]
    /\ ids' = [ids EXCEPT !.teams = rs.seq]
    /\ team_cache' = rs.cache
    /\ run' = MatchRun(rs, tournaments, serves, tournament_names, tournament_ids)

ScrapeLoaded(tournaments, serves, tournament_names, tournament_ids) ==
    AfterMatchScrape(
        ScrapeTournaments(tournaments, serves, 1,
                          RunState(Fetcher, store.teams, ids.teams, team_cache)),
        tournaments, serves, tournament_names, tournament_ids)

\* MatchScraper.scrape(tournament_names, tournament_ids)
MatchScrape ==
    \E tournament_names \in NameFilters, tournament_ids \in IdFilters,
       serves \in [{ t.id : t \in store.tournaments } -> Serves] :
        /\ nruns < MaxRuns
        /\ nruns' = nruns + 1
        /\ ScrapeLoaded(LoadTournaments(store.tournaments, tournament_names, tournament_ids),
                        serves, tournament_names, tournament_ids)
        /\ UNCHANGED <<delay, ncalls, fs, scraped, doc, parsed, nedits, calls>>

\* The names and regions that a client of the REST API writes.
ApiNames == { TxT1, TxT1Lower, TxG2 }
ApiRegions == { TxKR }

\* TeamViewSet.update / partial_update (PUT, PATCH /teams/<id>/): the name
\* stays unique.
ApiUpdateTeam ==
    \E t \in store.teams, name \in ApiNames, region \in ApiRegions :
        /\ nedits < MaxEdits
        /\ \A o \in store.teams \ {t} : o.name # name
        /\ nedits' = nedits + 1
        /\ store' = [store EXCEPT !.teams =
                        (@ \ {t}) \cup {[t EXCEPT !.name = name, !.region = region]}]
        /\ UNCHANGED <<ids, team_cache, doc, parsed, run, nruns, calls>>
        /\ UNCHANGED fetchVars

\* TeamViewSet.destroy (DELETE /teams/<id>/): the rows that refer to the team
\* with on_delete=CASCADE go with it.
ApiDeleteTeam ==
    \E t \in store.teams :
        /\ nedits < MaxEdits
        /\ nedits' = nedits + 1
        /\ store' = [store EXCEPT
                        !.teams = @ \ {t},
                        !.stats = { s \in @ : s.team # t.id },
                        !.games = { g \in @ : g.blue_team # t.id /\ g.red_team # t.id }]
        /\ UNCHANGED <<ids, team_cache, doc, parsed, run, nruns, calls>>
        /\ UNCHANGED fetchVars

-----------------------------------------------------------------------------
(***************************************************************************)
(* Part 6: the persist operations                                          *)
(*                                                                         *)
(* A row of a table is a record of its columns.  The store commits each    *)
(* statement on its own unless the statement runs inside                   *)
(* transaction.atomic(), which undoes its writes when an exception leaves  *)
(* it.  A hard storage fault is an exception of the k-th update_or_create  *)
(* of a call (fault = 0: none).                                            *)
(***************************************************************************)

MaxBatch == 2

\* text[:n]
Take(text, n) == SubSeq(text, 1, Min(n, Len(text)))

\* The columns of the tables that BaseScraper.save_to_database is used on.
Columns(model_class) ==
    IF model_class = "patches" THEN {"id", "version_num", "date"}
    ELSE {"id", "date", "blue_team", "red_team"}

\* Model.objects.filter(...) with the fields of lookup
Matching(table, lookup) ==
    { row \in table : \A f \in DOMAIN lookup : row[f] = lookup[f] }

\* setattr(obj, k, v) for the defaults, and save()
Written(row, defaults) ==
    [ f \in DOMAIN row |-> IF f \in DOMAIN defaults THEN defaults[f] ELSE row[f] ]

\* The row that update_or_create and get_or_create insert: the fields of
\* lookup, the defaults over them, and the next id.
NewRow(id, lookup, defaults) ==
    [ f \in {"id"} \cup DOMAIN lookup \cup DOMAIN defaults |->
        IF f = "id" THEN id
        ELSE IF f \in DOMAIN defaults THEN defaults[f] ELSE lookup[f] ]

Upserted(kind, created, row, table, seq) ==
    [ kind |-> kind, created |-> created, row |-> row, table |-> table, seq |-> seq ]

AfterFilter(table, seq, found, lookup, defaults) ==
    IF Cardinality(found) > 1
    THEN Upserted("MultipleObjectsReturned", FALSE, NoneObj, table, seq)
    ELSE IF found = {}
    THEN Upserted("ok", TRUE, NewRow(seq, lookup, defaults),
                  table \cup {NewRow(seq, lookup, defaults)}, seq + 1)
    ELSE Upserted("ok", FALSE, Written(CHOOSE row \in found : TRUE, defaults),
                  (table \ found) \cup {Written(CHOOSE row \in found : TRUE, defaults)}, seq)

\* update_or_create that inserts without looking for the row first.
UpdateOrCreateAlwaysInserts(table, seq, lookup, defaults) ==
    Upserted("ok", TRUE, NewRow(seq, lookup, defaults),
             table \cup {NewRow(seq, lookup, defaults)}, seq + 1)

\* Model.objects.update_or_create(lookup..., defaults=defaults)
UpdateOrCreate(table, seq, lookup, defaults) ==
    AfterFilter(table, seq, Matching(table, lookup), lookup, defaults)

AfterGetFilter(table, seq, found, lookup, defaults) ==
    IF Cardinality(found) > 1
    THEN Upserted("MultipleObjectsReturned", FALSE, NoneObj, table, seq)
    ELSE IF found = {}
    THEN Upserted("ok", TRUE, NewRow(seq, lookup, defaults),
                  table \cup {NewRow(seq, lookup, defaults)}, seq + 1)
    ELSE Upserted("ok", FALSE, CHOOSE row \in found : TRUE, table, seq)

\* Model.objects.get_or_create(lookup..., defaults=defaults)
GetOrCreate(table, seq, lookup, defaults) ==
    AfterGetFilter(table, seq, Matching(table, lookup), lookup, defaults)

\* The state of one persist call: the store and the id sequences as its
\* statements leave them, the counters and lists it returns, the number of
\* update_or_create calls made, whether an exception ended the call, whether
\* the storage fault happened, and whether a lookup matched several rows.
SaveState(st, sq) ==
    [ store |-> st, ids |-> sq, created |-> 0, updated |-> 0,
      created_teams |-> <<>>, skipped |-> <<>>, writes |-> 0,
      raised |-> FALSE, faulted |-> FALSE, ambiguous |-> FALSE ]

\* A counter that leaves the rows that were updated uncounted.
CountedWhenCreated(ps, created) == IF created THEN [ps EXCEPT !.created = @ + 1] ELSE ps

\* created_count += 1 / updated_count += 1
Counted(ps, created) ==
    IF created THEN [ps EXCEPT !.created = @ + 1] ELSE [ps EXCEPT !.updated = @ + 1]

\* ---- BaseScraper.save_to_database ----

\* Whether the database refuses the row: a column without a value, or a team
\* reference without its team.
IntegrityError(model_class, row, teams) ==
    \/ DOMAIN row # Columns(model_class)
    \/ /\ model_class = "games"
       /\ \/ row.blue_team \notin { t.id : t \in teams }
          \/ row.red_team \notin { t.id : t \in teams }

\* The try block of the loop after update_or_create ran: an exception (several
\* rows matched, or the database refused the row) is logged and the loop goes
\* on; else the row is written and counted.
AfterItemUpsert(ps, model_class, up) ==
    IF up.kind = "MultipleObjectsReturned" THEN [ps EXCEPT !.ambiguous = TRUE]
    ELSE IF IntegrityError(model_class, up.row, ps.store.teams) THEN ps
    ELSE Counted([ps EXCEPT !.store[model_class] = up.table, !.ids[model_class] = up.seq],
                 up.created)

\* The body of the loop: item.get('lookup', {}), item.get('defaults', {})
SaveItem(ps, item, model_class, fault) ==
    IF ps.writes + 1 = fault
    THEN [ps EXCEPT !.writes = @ + 1, !.faulted = TRUE]
    ELSE AfterItemUpsert([ps EXCEPT !.writes = @ + 1], model_class,
             UpdateOrCreate(ps.store[model_class], ps.ids[model_class],
                            item.lookup, item.defaults))

RECURSIVE SaveItems(_, _, _, _, _)
SaveItems(data, i, model_class, fault, ps) ==
    IF i > Len(data) THEN ps
    ELSE SaveItems(data, i + 1, model_class, fault, SaveItem(ps, data[i], model_class, fault))

\* BaseScraper.save_to_database(data, model_class)
SaveToDatabase(st, sq, data, model_class, fault) ==
    SaveItems(data, 1, model_class, fault, SaveState(st, sq))

\* with transaction.atomic(): an exception that leaves the block undoes the
\* writes made in it (the id sequences keep their values).
Atomic(before, ps) == IF ps.raised THEN [ps EXCEPT !.store = before] ELSE ps

\* An update_or_create inside an atomic block: the storage fault and the
\* exception of update_or_create leave the block.
Faulted(ps) == [ps EXCEPT !.writes = @ + 1, !.faulted = TRUE, !.raised = TRUE]

\* ---- TeamScraper.save_stats_to_database ----

\* defaults = {'region': ..., 'games': entry.get('games', 0), ...}: of the
\* statistics columns, games stands for all.
StatsDefaults(entry, region_snapshot, team_obj) ==
    [ region |-> IF region_snapshot # <<>> THEN Take(region_snapshot, 10)
                 ELSE Take(team_obj.region, 10),
      games |-> entry.games ]

AfterStatsUpsert(ps, up) ==
    IF up.kind # "ok" THEN [ps EXCEPT !.raised = TRUE]
    ELSE Counted([ps EXCEPT !.store.stats = up.table, !.ids.stats = up.seq], up.created)

\* TeamSeasonStats.objects.update_or_create(team=team_obj, season=season_obj, ...)
UpsertStats(ps, entry, season_obj, team_obj, region_snapshot, fault) ==
    IF ps.writes + 1 = fault THEN Faulted(ps)
    ELSE AfterStatsUpsert([ps EXCEPT !.writes = @ + 1],
             UpdateOrCreate(ps.store.stats, ps.ids.stats,
                            [team |-> team_obj.id, season |-> season_obj.id],
                            StatsDefaults(entry, region_snapshot, team_obj)))

\* A refresh that leaves the stored region as it was.
WithRegionKept(team_obj, region_snapshot) == team_obj

\* team_obj.region = region_snapshot[:50]; team_obj.save(update_fields=['region'])
WithRegion(team_obj, region_snapshot) ==
    [team_obj EXCEPT !.region = Take(region_snapshot, 50)]

\* The loop body after Team.objects.get_or_create returned.
AfterTeam(ps, entry, season_obj, region_snapshot, got, fault) ==
    IF got.created
    THEN UpsertStats([ps EXCEPT !.store.teams = got.table, !.ids.teams = got.seq,
                                !.created_teams = Append(@, entry.team_name)],
                     entry, season_obj, got.row, region_snapshot, fault)
    ELSE IF region_snapshot # <<>> /\ got.row.region # region_snapshot
    THEN UpsertStats([ps EXCEPT !.store.teams =
                          (@ \ {got.row}) \cup {WithRegion(got.row, region_snapshot)}],
                     entry, season_obj, WithRegion(got.row, region_snapshot),
                     region_snapshot, fault)
    ELSE UpsertStats(ps, entry, season_obj, got.row, region_snapshot, fault)

\* The loop body after Season.objects.get_or_create returned.
AfterSeason(ps, entry, got, region_snapshot, fault) ==
    AfterTeam([ps EXCEPT !.store.seasons = got.table, !.ids.seasons = got.seq],
              entry, got.row, region_snapshot,
              GetOrCreate(ps.store.teams, ps.ids.teams, [name |-> entry.team_name],
                          [region |-> IF region_snapshot # <<>>
                                      THEN Take(region_snapshot, 50) ELSE Unknown]),
              fault)

\* The body of the loop over team_stats.
SaveEntry(ps, entry, season_name, fault) ==
    IF Falsy(entry.team_name) \/ Falsy(Or(entry.season, season_name))
    THEN [ps EXCEPT !.skipped = Append(@, entry)]
    ELSE AfterSeason(ps, entry,
             GetOrCreate(ps.store.seasons, ps.ids.seasons,
                         [name |-> Or(entry.season, season_name)], <<>>),
             Strip(OrEmpty(entry.region)), fault)

RECURSIVE SaveEntries(_, _, _, _, _)
SaveEntries(team_stats, i, season_name, fault, ps) ==
    IF i > Len(team_stats) \/ ps.raised THEN ps
    ELSE SaveEntries(team_stats, i + 1, season_name, fault,
                     SaveEntry(ps, team_stats[i], season_name, fault))

\* TeamScraper.save_stats_to_database(team_stats, season_name)
SaveStatsToDatabase(st, sq, team_stats, season_name, fault) ==
    IF team_stats = <<>> THEN SaveState(st, sq)
    ELSE Atomic(st, SaveEntries(team_stats, 1, season_name, fault, SaveState(st, sq)))

\* ---- MatchScraper.save_matches_to_database ----

\* MatchScraper._coerce_date(value): the date as the column stores it, None,
\* or the ValueError of parse_date.
CoerceDate(value) ==
    IF Falsy(value) THEN [raised |-> FALSE, value |-> NoneText]
    ELSE IF ParseDate(value).kind = "ValueError" THEN [raised |-> TRUE, value |-> NoneText]
    ELSE IF ParseDate(value).kind = "None" THEN [raised |-> FALSE, value |-> NoneText]
    ELSE [raised |-> FALSE, value |-> IsoFormat(ParseDate(value))]

MatchDefaults(tournament_id, entry, date_obj) ==
    [ tournament |-> tournament_id, team_one |-> entry.team_one_id,
      team_two |-> entry.team_two_id, team_one_score |-> entry.team_one_score,
      team_two_score |-> entry.team_two_score, week |-> entry.week,
      patch |-> entry.patch, date |-> date_obj ]

AfterMatchUpsert(ps, up) ==
    IF up.kind # "ok" THEN [ps EXCEPT !.raised = TRUE]
    ELSE Counted([ps EXCEPT !.store.matches = up.table, !.ids.matches = up.seq], up.created)

\* Match.objects.update_or_create(match_url=match_url, defaults=defaults)
UpsertMatch(ps, tournament_id, entry, date_obj, fault) ==
    IF date_obj.raised THEN [ps EXCEPT !.raised = TRUE]
    ELSE IF ps.writes + 1 = fault THEN Faulted(ps)
    ELSE AfterMatchUpsert([ps EXCEPT !.writes = @ + 1],
             UpdateOrCreate(ps.store.matches, ps.ids.matches,
                            [match_url |-> entry.match_url],
                            MatchDefaults(tournament_id, entry, date_obj.value)))

SkippedMatch(reason, entry) ==
    [ reason |-> reason, match_url |-> entry.match_url,
      team_one_id |-> entry.team_one_id, team_two_id |-> entry.team_two_id ]

\* A loop body that stores every entry.
SaveMatchUnchecked(ps, tournament_id, entry, fault) ==
    UpsertMatch(ps, tournament_id, entry,
                CoerceDate(Or(entry.date_iso, entry.date_text)), fault)

\* The body of the loop over group["matches"].
SaveMatch(ps, tournament_id, entry, fault) ==
    IF entry.match_url = <<>> \/ entry.team_one_id = 0 \/ entry.team_two_id = 0
    THEN [ps EXCEPT !.skipped = Append(@, SkippedMatch("missing_core_fields", entry))]
    ELSE IF \/ entry.team_one_id \notin { t.id : t \in ps.store.teams }
            \/ entry.team_two_id \notin { t.id : t \in ps.store.teams }
    THEN [ps EXCEPT !.skipped = Append(@, SkippedMatch("team_lookup_failed", entry))]
    ELSE UpsertMatch(ps, tournament_id, entry,
                     CoerceDate(Or(entry.date_iso, entry.date_text)), fault)

RECURSIVE SaveMatches(_, _, _, _, _)
SaveMatches(matches, i, tournament_id, fault, ps) ==
    IF i > Len(matches) \/ ps.raised THEN ps
    ELSE SaveMatches(matches, i + 1, tournament_id, fault,
                     SaveMatch(ps, tournament_id, matches[i], fault))

\* The body of the loop over match_sets.
SaveMatchGroup(ps, group, fault) ==
    IF group.tournament_id = 0
    THEN [ps EXCEPT !.skipped = Append(@, [reason |-> "missing_tournament_id",
                                           group |-> group])]
    ELSE IF group.tournament_id \notin { t.id : t \in ps.store.tournaments }
    THEN [ps EXCEPT !.skipped = Append(@, [reason |-> "tournament_not_found",
                                           tournament_id |-> group.tournament_id])]
    ELSE SaveMatches(group.matches, 1, group.tournament_id, fault, ps)

RECURSIVE SaveMatchGroups(_, _, _, _)
SaveMatchGroups(match_sets, i, fault, ps) ==
    IF i > Len(match_sets) \/ ps.raised THEN ps
    ELSE SaveMatchGroups(match_sets, i + 1, fault, SaveMatchGroup(ps, match_sets[i], fault))

\* MatchScraper.save_matches_to_database(match_sets)
SaveMatchesToDatabase(st, sq, match_sets, fault) ==
    Atomic(st, SaveMatchGroups(match_sets, 1, fault, SaveState(st, sq)))

\* ---- TournamentScraper.save_to_database ----

\* parse_date(last_game_raw) if last_game_raw else None
LastGameDate(last_game_raw) ==
    IF Falsy(last_game_raw) THEN [raised |-> FALSE, value |-> NoneText]
    ELSE IF ParseDate(last_game_raw).kind = "ValueError"
    THEN [raised |-> TRUE, value |-> NoneText]
    ELSE IF ParseDate(last_game_raw).kind = "None"
    THEN [raised |-> FALSE, value |-> NoneText]
    ELSE [raised |-> FALSE, value |-> IsoFormat(ParseDate(last_game_raw))]

TournamentDefaults(entry, season_snapshot, last_game_date) ==
    [ tier |-> <<>>, season_name |-> season_snapshot, region |-> Take(entry.region, 10),
      last_game_date |-> last_game_date, details_url |-> entry.href ]

AfterTournamentUpsert(ps, up) ==
    IF up.kind # "ok" THEN [ps EXCEPT !.raised = TRUE]
    ELSE Counted([ps EXCEPT !.store.tournaments = up.table, !.ids.tournaments = up.seq],
                 up.created)

\* Tournament.objects.update_or_create(name=..., season_name=..., defaults=...)
UpsertTournament(ps, entry, season_snapshot, last_game_date, fault) ==
    IF last_game_date.raised THEN [ps EXCEPT !.raised = TRUE]
    ELSE IF ps.writes + 1 = fault THEN Faulted(ps)
    ELSE AfterTournamentUpsert([ps EXCEPT !.writes = @ + 1],
             UpdateOrCreate(ps.store.tournaments, ps.ids.tournaments,
                            [name |-> entry.name, season_name |-> season_snapshot],
                            TournamentDefaults(entry, season_snapshot, last_game_date.value)))

\* The body of the loop over group["tournaments"].
SaveTournament(ps, entry, season_name, fault) ==
    IF Falsy(entry.name) THEN ps
    ELSE UpsertTournament(ps, entry, OrEmpty(Or(entry.season, season_name)),
                          LastGameDate(entry.last_game), fault)

RECURSIVE SaveTournaments(_, _, _, _, _)
SaveTournaments(tournaments, i, season_name, fault, ps) ==
    IF i > Len(tournaments) \/ ps.raised THEN ps
    ELSE SaveTournaments(tournaments, i + 1, season_name, fault,
                         SaveTournament(ps, tournaments[i], season_name, fault))

RECURSIVE SaveTournamentGroups(_, _, _, _)
SaveTournamentGroups(tournament_sets, i, fault, ps) ==
    IF i > Len(tournament_sets) \/ ps.raised THEN ps
    ELSE SaveTournamentGroups(tournament_sets, i + 1, fault,
             SaveTournaments(tournament_sets[i].tournaments, 1,
                             Or(tournament_sets[i].season, tournament_sets[i].file_name),
                             fault, ps))

\* TournamentScraper.save_to_database(tournament_sets)
TournamentSaveToDatabase(st, sq, tournament_sets, fault) ==
    Atomic(st, SaveTournamentGroups(tournament_sets, 1, fault, SaveState(st, sq)))

\* ---- the calls ----

\* The batches of at most MaxBatch records over a set of records.
Batches(records) == UNION { [1..n -> records] : n \in 0..MaxBatch }

TxS14 == <<"s","1","4">>
TxPatch1 == <<"1","5",".","1">>
TxPatch2 == <<"1","5",".","2">>
TxDay1 == <<"2","0","2","4","-","0","1","-","0","5">>
TxDay2 == <<"2","0","2","4","-","0","1","-","0","6">>
TxEurope == <<"E","u","r","o","p","e"," ","W","e","s","t">>
TxFileName == <<"l","i","s","t",".","h","t","m","l">>

\* Candidate records for Patch: the last one has no date.
PatchItems ==
    { [lookup |-> [version_num |-> TxPatch1], defaults |-> [date |-> TxDay1]],
      [lookup |-> [version_num |-> TxPatch2], defaults |-> [date |-> TxDay1]],
      [lookup |-> [version_num |-> TxPatch1], defaults |-> <<>>] }

\* Candidate records for Game: the last one refers to a team that is not stored.
GameItems ==
    { [lookup |-> [date |-> TxDay1], defaults |-> [blue_team |-> 1, red_team |-> 2]],
      [lookup |-> [date |-> TxDay2, blue_team |-> 1], defaults |-> [red_team |-> 2]],
      [lookup |-> [date |-> TxDay2, blue_team |-> 2], defaults |-> [red_team |-> 7]] }

\* Rows of parsed team statistics, as _convert_row_to_stats gives them.
TeamEntries ==
    { [team_name |-> n, season |-> s, region |-> r, games |-> 10] :
        n \in {TxT1, TxG2, NoneText}, s \in {TxS15, TxS14, NoneText}, r \in {<<>>, TxKR} }

\* A match of a match set, as the row loop of _parse_match_table gives it.
MatchEntry(raw_href, one, two, date_text, date_iso) ==
    [ match_href |-> raw_href,
      match_url |-> IF raw_href # <<>> THEN UrlJoin(GolGG, raw_href) ELSE <<>>,
      team_one_name |-> TxT1, team_two_name |-> TxG2,
      team_one_score |-> 1, team_two_score |-> 0,
      week |-> TxWeek, patch |-> TxPatch1,
      date_text |-> date_text, date_iso |-> date_iso,
      team_one_resolved_name |-> TxT1, team_two_resolved_name |-> TxG2,
      team_one_id |-> one, team_two_id |-> two ]

MatchEntries ==
    { MatchEntry(TxHref1, 1, 2, TxDate, TxDay1),
      MatchEntry(Strip(TxHref2), 1, 2, TxNotADate, NoneText),
      MatchEntry(<<>>, 1, 2, TxDate, TxDay1),
      MatchEntry(TxHref1, 1, 7, TxDate, TxDay1),
      MatchEntry(Strip(TxHref2), 2, 1, TxNoSuchDay, NoneText) }

\* The match sets of a payload: none, or one for a tournament id (0: None).
MatchSets ==
    { <<>> } \cup
    { << [tournament_id |-> id, matches |-> matches] >> :
        id \in {0, 1, 9}, matches \in Batches(MatchEntries) }

TournamentEntries(season) ==
    { [season |-> season, name |-> TxLEC, href |-> TxHref1, region |-> TxEurope,
       last_game |-> TxDate],
      [season |-> season, name |-> TxLCK1, href |-> <<>>, region |-> TxKR,
       last_game |-> <<>>],
      [season |-> season, name |-> TxLCK1, href |-> <<>>, region |-> TxKR,
       last_game |-> TxNoSuchDay],
      [season |-> season, name |-> <<>>, href |-> <<>>, region |-> <<>>,
       last_game |-> TxNotADate] }

\* The tournament sets of a payload: none, or the one of a snapshot file.
TournamentSets ==
    { <<>> } \cup
    { << [season |-> TxS15, file_name |-> TxFileName, tournaments |-> tournaments] >> :
        tournaments \in Batches(TournamentEntries(TxS15)) }

MaxRepeats == 1

\* What is kept of a persist call: the operation, its arguments, where the
\* storage fault was set, the store before and after, what the call returned,
\* and whether it raised, met the fault, or had a lookup match several rows.
PersistCall(op, args, fault, ps) ==
    [ op |-> op, args |-> args, fault |-> fault, before |-> store, after |-> ps.store,
      created |-> ps.created, updated |-> ps.updated,
      created_teams |-> ps.created_teams, skipped |-> ps.skipped,
      raised |-> ps.raised, faulted |-> ps.faulted, ambiguous |-> ps.ambiguous ]

Persisted(op, args, fault, ps) ==
    /\ store' = ps.store
    /\ ids' = ps.ids
    /\ calls' = Append(calls, PersistCall(op, args, fault, ps))
    /\ UNCHANGED <<fetchVars, parseVars, scrapeVars>>

\* scraper.save_to_database(data, Patch) and scraper.save_to_database(data, Game)
BaseScraperSave ==
    \E model_class \in {"patches", "games"}, fault \in 0..MaxBatch :
        \E data \in Batches(IF model_class = "patches" THEN PatchItems ELSE GameItems) :
            /\ calls = <<>>
            /\ fault <= Len(data)
            /\ Persisted("BaseScraper.save_to_database",
                         [data |-> data, model_class |-> model_class], fault,
                         SaveToDatabase(store, ids, data, model_class, fault))

\* scraper.save_stats_to_database(team_stats, season_name=season_name)
TeamScraperSave ==
    \E team_stats \in Batches(TeamEntries), season_name \in {NoneText, TxS14},
       fault \in 0..MaxBatch :
        /\ calls = <<>>
        /\ fault <= Len(team_stats)
        /\ Persisted("TeamScraper.save_stats_to_database",
                     [team_stats |-> team_stats, season_name |-> season_name], fault,
                     SaveStatsToDatabase(store, ids, team_stats, season_name, fault))

\* scraper.save_matches_to_database(match_sets)
MatchScraperSave ==
    \E match_sets \in MatchSets, fault \in 0..MaxBatch :
        /\ calls = <<>>
        /\ Persisted("MatchScraper.save_matches_to_database",
                     [match_sets |-> match_sets], fault,
                     SaveMatchesToDatabase(store, ids, match_sets, fault))

\* scraper.save_to_database(payload.get('tournament_sets', []))
TournamentScraperSave ==
    \E tournament_sets \in TournamentSets, fault \in 0..MaxBatch :
        /\ calls = <<>>
        /\ Persisted("TournamentScraper.save_to_database",
                     [tournament_sets |-> tournament_sets], fault,
                     TournamentSaveToDatabase(store, ids, tournament_sets, fault))

\* The operation of a call, on the store as it is now.
Invoke(op, args, fault) ==
    CASE op = "BaseScraper.save_to_database" ->
             SaveToDatabase(store, ids, args.data, args.model_class, fault)
      [] op = "TeamScraper.save_stats_to_database" ->
             SaveStatsToDatabase(store, ids, args.team_stats, args.season_name, fault)
      [] op = "MatchScraper.save_matches_to_database" ->
             SaveMatchesToDatabase(store, ids, args.match_sets, fault)
      [] op = "TournamentScraper.save_to_database" ->
             TournamentSaveToDatabase(store, ids, args.tournament_sets, fault)

\* The caller persists the same data once more (the endpoint is posted to
\* again with the same page).
PersistAgain ==
    /\ Len(calls) \in 1..MaxRepeats
    /\ Persisted(calls[1].op, calls[1].args, 0, Invoke(calls[1].op, calls[1].args, 0))

-----------------------------------------------------------------------------
(***************************************************************************)
(* Part 7: the row mappers, and a team row mapped and then persisted       *)
(***************************************************************************)

\* Bound of the row part: the columns of a team row.
MaxColumns == 2

\* ---- ChampionScraper._parse_table_rows_to_champions ----

\* The 'defaults' of a champion record: the cells by position, each through
\* its coercer with the coercer's own default (release_date and
\* primary_damage_type are the same for every row).
ChampionDefaults(row) ==
    [ picks |-> ChampionParseInteger(row[2], Whole(0)),
      bans |-> ChampionParseInteger(row[3], Whole(0)),
      prioscore |-> ChampionParsePercentage(row[4]),
      wins |-> ChampionParseInteger(row[5], Whole(0)),
      losses |-> ChampionParseInteger(row[6], Whole(0)),
      winrate |-> ChampionParsePercentage(row[7]),
      KDA |-> ChampionParseFloat(row[8], Whole(0)),
      avg_bt |-> ChampionParseFloat(row[9], Whole(0)),
      avg_rp |-> ChampionParseFloat(row[10], Whole(0)),
      gt |-> ChampionParseDuration(row[11]),
      csm |-> ChampionParseFloat(row[12], Whole(0)),
      dpm |-> ChampionParseInteger(row[13], Whole(0)),
      gpm |-> ChampionParseInteger(row[14], Whole(0)),
      csd_15 |-> ChampionParseInteger(row[15], Whole(0)),
      gd_15 |-> ChampionParseInteger(row[16], Whole(0)),
      xpd_15 |-> ChampionParseInteger(row[17], Whole(0)) ]

ChampionData(row) == [lookup |-> [name |-> Strip(row[1])], defaults |-> ChampionDefaults(row)]

\* The rows that the loop maps: at least 17 cells and a name.
ChampionRowKept(row) == Len(row) >= 17 /\ Strip(row[1]) # <<>>

ChampionRaised(data) == \E f \in DOMAIN data.defaults : Raises(data.defaults[f])

ChampionsResult(champions) ==
    [ raised |-> \E i \in 1..Len(champions) : ChampionRaised(champions[i]),
      champions |-> champions ]

MapChampions(rows) == [i \in 1..Len(rows) |-> ChampionData(rows[i])]

\* ChampionScraper._parse_table_rows_to_champions(table_rows); an exception
\* of a coercer leaves the mapper.
ParseTableRowsToChampions(table_rows) ==
    IF Len(table_rows) < 2 THEN ChampionsResult(<<>>)
    ELSE ChampionsResult(MapChampions(SelectSeq(Tail(table_rows), ChampionRowKept)))

\* ---- the inputs ----

TxAhri == <<"A","h","r","i">>
TxTen == <<"1","0">>
TxGames == <<"G","a","m","e","s">>
TxGamesUpper == <<"G","A","M","E","S"," ">>
TxSeasonUpper == <<" ","S","E","A","S","O","N">>
\* A region text one character longer than the region column of Team.
TxLongRegion == TxEurope \o [i \in 1..40 |-> "a"]

\* A champion row with the same text in its sixteen statistics cells, and one
\* that is a cell short.
ChampionRow(name, cell) == <<name>> \o [i \in 1..16 |-> cell]
ChampionRows ==
    { ChampionRow(name, cell) : name \in {TxAhri, TxBlank, <<>>}, cell \in {TxTen, TxAbc} }
        \cup { SubSeq(ChampionRow(TxAhri, TxTen), 1, 16) }

ChampionTables ==
    {<<>>} \cup { <<ChampionRow(TxName, TxName)>> \o rows :
                     rows \in UNION { [1..n -> ChampionRows] : n \in 0..MaxRows } }

\* The columns of a team row: a header text and the cell text under it.
Column(header, cell) == [header |-> header, cell |-> cell]
TeamColumns ==
    { Column(TxName, TxT1), Column(TxName, <<>>), Column(TxSeason, TxS15),
      Column(TxSeasonUpper, TxBlank), Column(TxRegion, <<>>), Column(TxGames, TxTen),
      Column(TxGamesUpper, TxSixty), Column(TxWeek, TxTen), Column(<<>>, TxT1),
      Column(TxRegion, TxKR), Column(TxRegion, TxLongRegion) }

TeamRows == UNION { [1..n -> TeamColumns] : n \in 1..MaxColumns }

RowDocuments ==
    { [kind |-> "table_rows", table_rows |-> t] : t \in ChampionTables }
        \cup { [kind |-> "row", columns |-> r] : r \in TeamRows }

\* ---- the mappers applied ----

\* champions = self._parse_table_rows_to_champions(table_rows)
ChampionParseTableRows ==
    /\ doc.kind = "table_rows"
    /\ parsed = NoneObj
    /\ parsed' = CoercedRecord("ChampionScraper", "rows", doc.table_rows, NoneObj,
                               ParseTableRowsToChampions(doc.table_rows))
    /\ UNCHANGED <<doc, team_cache, storeVars>>
    /\ UNCHANGED notParseVars

\* row_data of the row of a document
DocumentRow(columns) ==
    RowData([i \in 1..Len(columns) |-> columns[i].header],
            [i \in 1..Len(columns) |-> columns[i].cell])

\* stats = self._convert_row_to_stats(row_data, season_name=season_name)
TeamConvertRow ==
    \E season_name \in {NoneText, TxS14} :
        /\ doc.kind = "row"
        /\ parsed = NoneObj
        /\ parsed' = CoercedRecord("TeamScraper", "row", doc.columns, season_name,
                                   ConvertRowToStats(DocumentRow(doc.columns), season_name))
        /\ UNCHANGED <<doc, team_cache, storeVars>>
        /\ UNCHANGED notParseVars

\* entry.get(field, default)
Get(entry, field, default) == IF field \in DOMAIN entry THEN entry[field] ELSE default

\* The entry as save_stats_to_database reads it.
EntryOf(stats) ==
    [ team_name |-> Get(stats, "team_name", NoneText), season |-> Get(stats, "season", NoneText),
      region |-> Get(stats, "region", NoneText), games |-> Get(stats, "games", Whole(0)) ]

\* scraper.save_stats_to_database(team_stats, season_name=season_name) with
\* the team_stats of the row that was mapped (_extract_table_data keeps the
\* stats that are not empty).
TeamSaveConverted ==
    \E season_name \in {NoneText, TxS14} :
        /\ parsed # NoneObj
        /\ parsed.coercer = "row"
        /\ DOMAIN parsed.result # {}
        /\ calls = <<>>
        /\ Persisted("TeamScraper.save_stats_to_database",
                     [team_stats |-> <<EntryOf(parsed.result)>>, season_name |-> season_name],
                     0,
                     SaveStatsToDatabase(store, ids, <<EntryOf(parsed.result)>>, season_name, 0))

-----------------------------------------------------------------------------
(***************************************************************************)
(* Part 8: the scrape calls of ChampionScraper, TeamScraper and            *)
(* TournamentScraper as a whole, and the endpoints of ScraperViewSet that  *)
(* call a scraper and persist what it returned (scraper_views.py)          *)
(*                                                                         *)
(* A payload is a record with the keys of the dict that the code returns;  *)
(* the keys that only describe the page for debugging are left out.  Each  *)
(* endpoint builds a new scraper, so its rate limiter and its team cache   *)
(* start empty with every request.                                         *)
(***************************************************************************)

\* Bound of the endpoint part: the requests posted.
MaxRequests == 1

\* ---- ChampionScraper.scrape ----

\* ' '.join(cell_text.split()): runs of whitespace become one space.
RECURSIVE Squeeze(_)
Squeeze(s) ==
    IF Len(s) < 2 THEN s
    ELSE IF s[1] \in Whitespace /\ s[2] \in Whitespace THEN Squeeze(Tail(s))
    ELSE <<s[1]>> \o Squeeze(Tail(s))

\* cell.get_text(separator=' ', strip=True), then the whitespace clean-up
ChampionCellText(cell) ==
    IF cell.a = NoneObj \/ Strip(cell.a.text) = <<>> THEN Squeeze(Strip(cell.text))
    ELSE IF Strip(cell.text) = <<>> THEN Squeeze(Strip(cell.a.text))
    ELSE Squeeze(Strip(cell.a.text) \o <<" ">> \o Strip(cell.text))

\* soup.find_all('table', class_='playerslist')
PlayersListTables(soup) == SelectSeq(soup.tables, LAMBDA t : t.class = "playerslist")

\* The rows of a table as lists of cell texts; a row without cells is left out.
TableRows(table) ==
    SelectSeq([r \in 1..Len(AllRows(table)) |->
                  [i \in 1..Len(AllRows(table)[r]) |-> ChampionCellText(AllRows(table)[r][i])]],
              LAMBDA cells : cells # <<>>)

\* playersList_data: the rows of each table that has rows
PlayersListData(tables) ==
    SelectSeq([t \in 1..Len(tables) |-> TableRows(tables[t])], LAMBDA rows : rows # <<>>)

\* champions_data: the champions of every table, in order; an exception of a
\* coercer leaves the loop.
RECURSIVE ChampionsData(_)
ChampionsData(data) ==
    IF data = <<>> THEN ChampionsResult(<<>>)
    ELSE ChampionsResult(ParseTableRowsToChampions(data[1]).champions
                         \o ChampionsData(Tail(data)).champions)

\* The dict that scrape returns for a page that was obtained.
ChampionPayload(source, how, soup) ==
    IF soup = NoneObj
    THEN [ error |-> <<"Failed to parse HTML content">> ]
    ELSE [ source |-> source,
           source_type |-> how.via,
           playersList_data |-> PlayersListData(PlayersListTables(soup)),
           champions_data |-> ChampionsData(PlayersListData(PlayersListTables(soup))).champions,
           champions_count |->
               Len(ChampionsData(PlayersListData(PlayersListTables(soup))).champions),
           table_count |-> Len(PlayersListTables(soup)) ]

\* The fetcher of a scraper just built, and after its fetch_page call.
FreshFetcher == [Fetcher EXCEPT !.last_request_time = 0]
Fetched(f) == FetcherAfter(FreshFetcher, f)

\* What a scrape call gives: the payload (NoneObj when an exception left the
\* call), and the fetcher as the call leaves it.
Scraped(payload, raised, fst) == [payload |-> payload, raised |-> raised, fetcher |-> fst]

ChampionParsed(source, how, soup, fst) ==
    IF soup # NoneObj /\ ChampionsData(PlayersListData(PlayersListTables(soup))).raised
    THEN Scraped(NoneObj, TRUE, fst)
    ELSE Scraped(ChampionPayload(source, how, soup), FALSE, fst)

ChampionFetched(source, how, f, page) ==
    IF f.raised THEN Scraped(NoneObj, TRUE, Fetched(f))
    ELSE IF f.value = NoneObj
    THEN Scraped([error |-> <<"Failed to fetch">>, data |-> NoneObj], FALSE, Fetched(f))
    ELSE ChampionParsed(source, how, ParseHtml(page), Fetched(f))

\* ChampionScraper.scrape(source_url, file_path) on a new scraper at time
\* `now`; `page` is what the file holds or the site serves.
ChampionScraperScrape(files, source_url, file_path, now, net, page) ==
    IF ChampionSource(files, source_url, file_path).via = "none"
    THEN Scraped([ error |-> <<ChampionSource(files, source_url, file_path).error>>,
                   data |-> NoneObj ], FALSE, FreshFetcher)
    ELSE IF ChampionSource(files, source_url, file_path).via = "file"
    THEN ChampionParsed(IF file_path # NoneObj THEN file_path ELSE source_url,
                        ChampionSource(files, source_url, file_path), ParseHtml(page),
                        FreshFetcher)
    ELSE ChampionFetched(source_url, ChampionSource(files, source_url, file_path),
                         FetchPage(0, now, delay, source_url, net, 0), page)

\* ---- TeamScraper.scrape ----

TeamExtracted(source_url, f, table_data) ==
    IF ExtractRaised(table_data) THEN Scraped(NoneObj, TRUE, Fetched(f))
    ELSE IF ~Falsy(table_data.error)
    THEN Scraped([ error |-> table_data.error, data |-> NoneObj, source_url |-> source_url,
                   status_code |-> f.value.status_code ], FALSE, Fetched(f))
    ELSE Scraped([ source_url |-> source_url, status_code |-> f.value.status_code,
                   table |-> table_data.table, team_stats |-> table_data.team_stats ],
                 FALSE, Fetched(f))

TeamFetched(source_url, season_name, f, page) ==
    IF f.raised THEN Scraped(NoneObj, TRUE, Fetched(f))
    ELSE IF f.value = NoneObj
    THEN Scraped([error |-> <<"Failed to fetch">>, data |-> NoneObj], FALSE, Fetched(f))
    ELSE TeamExtracted(source_url, f, ExtractTableData(page, season_name))

\* TeamScraper.scrape(source_url, season_name) on a new scraper at time `now`.
TeamScraperScrape(files, source_url, season_name, now, net, page) ==
    IF TeamSource(files, source_url).via = "none"
    THEN Scraped([error |-> <<TeamSource(files, source_url).error>>, data |-> NoneObj],
                 FALSE, FreshFetcher)
    ELSE TeamFetched(source_url, season_name,
                     FetchPage(0, now, delay, source_url, net, 0), page)


\* ---- TournamentScraper.scrape ----

\* A value of the JSON body of a request, or of an optional list argument:
\* null (None), a list of items, or a string.
JsonNull == [json |-> "null"]
JsonList(items) == [json |-> "list", items |-> items]
JsonString(text) == [json |-> "string", text |-> text]

\* `if value:` for such a value
Truthy(value) ==
    \/ value.json = "list" /\ value.items # <<>>
    \/ value.json = "string" /\ value.text # <<>>

\* isinstance(value, (list, tuple))
IsList(value) == value.json = "list"

\* The items of a list argument; None gives none.
Items(value) == IF value.json = "list" THEN value.items ELSE <<>>

TxListPrefix == <<"t","o","u","r","n","a","m","e","n","t","_","l","i","s","t","_">>
TxHtmlSuffix == <<".","h","t","m","l">>

\* The name of the snapshot file of a season.
FileName(season) == TxListPrefix \o season \o TxHtmlSuffix

StartsWith(s, prefix) == Len(s) >= Len(prefix) /\ SubSeq(s, 1, Len(prefix)) = prefix
EndsWith(s, suffix) ==
    Len(s) >= Len(suffix) /\ SubSeq(s, Len(s) - Len(suffix) + 1, Len(s)) = suffix

\* TournamentScraper._derive_season_from_filename, for a name that glob
\* matched: the text between 'tournament_list_' and '.html' when there is
\* one (the group (.+) needs a character), else the name without '.html'.
DeriveSeasonFromFilename(name) ==
    IF StartsWith(name, TxListPrefix) /\ EndsWith(name, TxHtmlSuffix)
       /\ Len(name) > Len(TxListPrefix) + Len(TxHtmlSuffix)
    THEN SubSeq(name, Len(TxListPrefix) + 1, Len(name) - Len(TxHtmlSuffix))
    ELSE SubSeq(name, 1, Len(name) - Len(TxHtmlSuffix))

\* A file of the snapshot directory: its name, whether read_text gives its
\* text, raises OSError or raises UnicodeDecodeError, and the page it holds.
SnapshotFile(season, content, page) ==
    [name |-> FileName(season), content |-> content, page |-> page]

\* TournamentScraper._iter_tournament_files: sorted(directory.glob(...))
IterTournamentFiles(directory) ==
    IF directory = NoneObj THEN <<>> ELSE OrderByName(directory.files)

\* The payload while the file loop runs, and whether an exception ended it.
TournamentRunState(seasons) ==
    [ seasons_requested |-> seasons, tournament_sets |-> <<>>, total_tournaments |-> 0,
      errors |-> <<>>, raised |-> FALSE ]

ReadFailedSet(season, file) ==
    [ season |-> season, file_name |-> file.name, tournaments |-> <<>>, count |-> 0,
      error |-> <<"Failed to read ">> \o file.name ]

\* The loop body after _parse_tournament_table returned.
CollectTournaments(ts, file, result) ==
    [ts EXCEPT !.tournament_sets = Append(@, result),
               !.total_tournaments = @ + result.count,
               !.errors = IF ~Falsy(result.error)
                          THEN Append(@, file.name \o <<":", " ">> \o result.error)
                          ELSE @]

\* The loop body for a file whose season passed the filter.
ReadFile(ts, file, season) ==
    IF file.content = "OSError"
    THEN [ts EXCEPT !.tournament_sets = Append(@, ReadFailedSet(season, file)),
                    !.errors = Append(@, ReadFailedSet(season, file).error)]
    ELSE IF file.content = "UnicodeDecodeError" THEN [ts EXCEPT !.raised = TRUE]
    ELSE CollectTournaments(ts, file, ParseTournamentTable(file.page, season, file.name))

\* A season filter that passes every file.
FilteredOutNever(seasons, season) == FALSE

\* if seasons and season not in seasons_filter: continue
FilteredOut(seasons, season) ==
    Truthy(seasons) /\ \A i \in 1..Len(Items(seasons)) : Items(seasons)[i] # season

ScrapeFile(ts, file, seasons) ==
    IF FilteredOut(seasons, DeriveSeasonFromFilename(file.name)) THEN ts
    ELSE ReadFile(ts, file, DeriveSeasonFromFilename(file.name))

RECURSIVE ScrapeFiles(_, _, _, _)
ScrapeFiles(files, i, seasons, ts) ==
    IF i > Len(files) \/ ts.raised THEN ts
    ELSE ScrapeFiles(files, i + 1, seasons, ScrapeFile(ts, files[i], seasons))

\* After the loop: the filter that matched no file is reported.
AfterFiles(ts, seasons) ==
    IF ~ts.raised /\ Truthy(seasons) /\ ts.tournament_sets = <<>>
    THEN [ts EXCEPT !.errors =
              Append(@, <<"No tournament files matched the requested seasons">>)]
    ELSE ts

TournamentPayload(ts) ==
    [ seasons_requested |-> ts.seasons_requested, tournament_sets |-> ts.tournament_sets,
      total_tournaments |-> ts.total_tournaments, errors |-> ts.errors ]

TournamentScraped(ts) ==
    IF ts.raised THEN Scraped(NoneObj, TRUE, FreshFetcher)
    ELSE Scraped(TournamentPayload(ts), FALSE, FreshFetcher)

\* TournamentScraper.scrape(seasons) over the snapshot directory.
TournamentScraperScrape(directory, seasons) ==
    IF directory = NoneObj
    THEN Scraped([ seasons_requested |-> seasons, tournament_sets |-> <<>>,
                   total_tournaments |-> 0,
                   errors |-> << <<"HTML directory not found">> >>,
                   fatal_error |-> <<"HTML directory not found">> ],
                 FALSE, FreshFetcher)
    ELSE TournamentScraped(
             AfterFiles(ScrapeFiles(IterTournamentFiles(directory), 1, seasons,
                                    TournamentRunState(seasons)),
                        seasons))


\* ---- the endpoints of ScraperViewSet ----

\* Response({...}, status=code): the HTTP status, the 'status' of the body
\* and the fields of the body that the claims read.
Response(code, status, body) == [code |-> code, status |-> status, body |-> body]

\* The except clause of every endpoint: the exception becomes a 500.
ServerError == Response(500, "error", <<>>)

\* What an endpoint call comes to: the scrape call it made (NoneObj when it
\* made none), the persist call it made (NoneObj when it made none), its
\* response, and the store, id sequences and fetcher as it leaves them.
Ended(sc, ps, response, st, sq, fst) ==
    [ scraped |-> sc, persist |-> ps, response |-> response,
      store |-> st, ids |-> sq, fetcher |-> fst ]

\* A request refused before a scraper is built.
Rejected(response) == Ended(NoneObj, NoneObj, response, store, ids, Fetcher)

\* What the response tells of a persist call.
PersistSummary(ps) ==
    [ created |-> ps.created, updated |-> ps.updated, created_teams |-> ps.created_teams,
      skipped |-> ps.skipped, raised |-> ps.raised ]

\* The attributes of a ChampionScraper: the methods of the class and of
\* BaseScraper, and the fields set in __init__.
ChampionScraperAttributes ==
    { "_parse_percentage", "_parse_integer", "_parse_float", "_parse_duration",
      "_parse_table_rows_to_champions", "scrape",
      "_rate_limit", "fetch_page", "parse_html", "save_to_database",
      "base_url", "delay", "timeout", "session", "last_request_time" }

\* scraped_response.get('champion_stats', [])
ChampionStats(payload) == Get(payload, "champion_stats", <<>>)

\* scrape_champions after scraper.scrape returned: with save_to_db the view
\* calls scraper.save_stats_to_database, whose lookup raises AttributeError
\* on a scraper that has no such attribute.
ChampionsScraped(request, sc) ==
    IF sc.raised THEN Ended(sc, NoneObj, ServerError, store, ids, sc.fetcher)
    ELSE IF request.save_to_db /\ "save_stats_to_database" \notin ChampionScraperAttributes
    THEN Ended(sc, NoneObj, ServerError, store, ids, sc.fetcher)
    ELSE Ended(sc, NoneObj,
               Response(200, "success",
                        [ champions_parsed |-> Len(ChampionStats(sc.payload)),
                          champion_stats |-> ChampionStats(sc.payload),
                          save_to_db |-> request.save_to_db ]),
               store, ids, sc.fetcher)

\* ScraperViewSet.scrape_champions(request)
ScrapeChampions(request, net, page) ==
    IF request.save_to_db /\ Falsy(request.season_name)
    THEN Rejected(Response(400, "error", <<>>))
    ELSE ChampionsScraped(request,
             ChampionScraperScrape(fs, request.source_url, request.file_path, clock, net, page))

\* The team_stats of a payload as save_stats_to_database reads them.
Entries(team_stats) == [i \in 1..Len(team_stats) |-> EntryOf(team_stats[i])]

TeamsPersisted(request, sc, ps) ==
    IF ps.raised
    THEN Ended(sc, PersistSummary(ps), ServerError, ps.store, ps.ids, sc.fetcher)
    ELSE Ended(sc, PersistSummary(ps),
               Response(200, "success",
                        [ team_stats |-> sc.payload.team_stats,
                          row_count |-> Len(sc.payload.table.rows),
                          stats_created |-> ps.created, stats_updated |-> ps.updated,
                          save_to_db |-> TRUE ]),
               ps.store, ps.ids, sc.fetcher)

TeamsScraped(request, sc, fault) ==
    IF sc.raised THEN Ended(sc, NoneObj, ServerError, store, ids, sc.fetcher)
    ELSE IF ~Falsy(Get(sc.payload, "error", NoneText))
    THEN Ended(sc, NoneObj, Response(502, "error", <<>>), store, ids, sc.fetcher)
    ELSE IF request.save_to_db
    THEN TeamsPersisted(request, sc,
             SaveStatsToDatabase(store, ids, Entries(sc.payload.team_stats),
                                 request.season_name, fault))
    ELSE Ended(sc, NoneObj,
               Response(200, "success",
                        [ team_stats |-> sc.payload.team_stats,
                          row_count |-> Len(sc.payload.table.rows),
                          stats_created |-> NoneInt, stats_updated |-> NoneInt,
                          save_to_db |-> FALSE ]),
               store, ids, sc.fetcher)

\* An endpoint that hands every request to the scraper.
ScrapeTeamsUnvalidated(request, net, page, fault) ==
    TeamsScraped(request,
        TeamScraperScrape(fs, request.source_url, request.season_name, clock, net, page),
        fault)

\* ScraperViewSet.scrape_teams(request)
ScrapeTeams(request, net, page, fault) ==
    IF request.source_url = NoneObj THEN Rejected(Response(400, "error", <<>>))
    ELSE IF request.save_to_db /\ Falsy(request.season_name)
    THEN Rejected(Response(400, "error", <<>>))
    ELSE TeamsScraped(request,
             TeamScraperScrape(fs, request.source_url, request.season_name, clock, net, page),
             fault)

\* The payload of MatchScraper.scrape for the run state it ended in.
MatchPayload(rs, tournaments) ==
    [ tournaments_processed |-> Len(tournaments), match_sets |-> rs.match_sets,
      errors |-> rs.errors ]

MatchesPersisted(request, sc, ps) ==
    IF ps.raised
    THEN Ended(sc, PersistSummary(ps), ServerError, ps.store, ps.ids, sc.fetcher)
    ELSE Ended(sc, PersistSummary(ps),
               Response(200, "success",
                        [ matches_created |-> ps.created, matches_updated |-> ps.updated,
                          matches_skipped |-> ps.skipped, save_to_db |-> TRUE ]),
               ps.store, ps.ids, sc.fetcher)

\* scrape_matches after scraper.scrape: the teams that the scrape wrote stay
\* in the store whatever follows.
MatchesScraped(request, rs, tournaments, fault) ==
    IF rs.raised
    THEN Ended(Scraped(NoneObj, TRUE, rs.fetcher), NoneObj, ServerError,
               [store EXCEPT !.teams = rs.teams], [ids EXCEPT !.teams = rs.seq], rs.fetcher)
    ELSE IF request.save_to_db
    THEN MatchesPersisted(request, Scraped(MatchPayload(rs, tournaments), FALSE, rs.fetcher),
             SaveMatchesToDatabase([store EXCEPT !.teams = rs.teams],
                                   [ids EXCEPT !.teams = rs.seq], rs.match_sets, fault))
    ELSE Ended(Scraped(MatchPayload(rs, tournaments), FALSE, rs.fetcher), NoneObj,
               Response(200, "success",
                        [ matches_created |-> NoneInt, matches_updated |-> NoneInt,
                          matches_skipped |-> <<>>, save_to_db |-> FALSE ]),
               [store EXCEPT !.teams = rs.teams], [ids EXCEPT !.teams = rs.seq], rs.fetcher)

MatchesLoaded(request, tournaments, serves, fault) ==
    MatchesScraped(request,
        ScrapeTournaments(tournaments, serves, 1,
                          RunState(FreshFetcher, store.teams, ids.teams, <<>>)),
        tournaments, fault)

\* ScraperViewSet.scrape_matches(request)
ScrapeMatches(request, serves, fault) ==
    IF request.tournament_names # JsonNull /\ ~IsList(request.tournament_names)
    THEN Rejected(Response(400, "error", <<>>))
    ELSE IF request.tournament_ids # JsonNull /\ ~IsList(request.tournament_ids)
    THEN Rejected(Response(400, "error", <<>>))
    ELSE MatchesLoaded(request,
             LoadTournaments(store.tournaments, Items(request.tournament_names),
                             Items(request.tournament_ids)),
             serves, fault)

TournamentsPersisted(request, sc, ps) ==
    IF ps.raised
    THEN Ended(sc, PersistSummary(ps), ServerError, ps.store, ps.ids, sc.fetcher)
    ELSE Ended(sc, PersistSummary(ps),
               Response(200, "success",
                        [ total_tournaments |-> sc.payload.total_tournaments,
                          created |-> ps.created, updated |-> ps.updated,
                          save_to_db |-> TRUE ]),
               ps.store, ps.ids, sc.fetcher)

TournamentsScraped(request, sc, fault) ==
    IF sc.raised THEN Ended(sc, NoneObj, ServerError, store, ids, sc.fetcher)
    ELSE IF "fatal_error" \in DOMAIN sc.payload
    THEN Ended(sc, NoneObj,
               Response(500, "error",
                        [ total_tournaments |-> 0, message |-> sc.payload.fatal_error,
                          save_to_db |-> request.save_to_db ]),
               store, ids, sc.fetcher)
    ELSE IF request.save_to_db
    THEN TournamentsPersisted(request, sc,
             TournamentSaveToDatabase(store, ids, sc.payload.tournament_sets, fault))
    ELSE Ended(sc, NoneObj,
               Response(200, "success",
                        [ total_tournaments |-> sc.payload.total_tournaments,
                          save_to_db |-> FALSE ]),
               store, ids, sc.fetcher)

\* ScraperViewSet.scrape_tournaments(request)
ScrapeTournamentsEndpoint(request, directory, fault) ==
    IF request.seasons # JsonNull /\ ~IsList(request.seasons)
    THEN Rejected(Response(400, "error", <<>>))
    ELSE TournamentsScraped(request, TournamentScraperScrape(directory, request.seasons),
                            fault)

\* ---- the requests posted and what they meet ----

\* A row of cells with the given texts.
CellRow(tag, texts) == [i \in 1..Len(texts) |-> Cell(tag, texts[i])]

\* A page with one playerslist table: a header row in <thead>, the data rows
\* in <tbody>.
StatsPage(header, rows) ==
    [ parses |-> TRUE,
      tables |-> << [ class |-> "playerslist",
                      sections |-> << Section("thead", <<CellRow("th", header)>>),
                                      Section("tbody",
                                          [r \in 1..Len(rows) |-> CellRow("td", rows[r])]) >> ] >> ]

NoTablePage == [parses |-> TRUE, tables |-> <<>>]
BrokenPage == [parses |-> FALSE, tables |-> <<>>]

\* The champion pages: one champion, a champion whose cells are no numbers,
\* a header alone, no table, and a page that BeautifulSoup refuses.
ChampionPages ==
    { StatsPage(ChampionRow(TxName, TxName), <<ChampionRow(TxAhri, TxTen)>>),
      StatsPage(ChampionRow(TxName, TxName), <<ChampionRow(TxAhri, TxAbc)>>),
      StatsPage(ChampionRow(TxName, TxName), <<>>),
      NoTablePage, BrokenPage }

\* The team pages: one team with its region, a team without a region and a
\* team the store does not hold, a team row without a name, a header alone,
\* no table, and a page that BeautifulSoup refuses.
TeamHeader == <<TxName, TxRegion, TxGames>>
TeamPages ==
    { StatsPage(TeamHeader, << <<TxT1, TxKR, TxTen>> >>),
      StatsPage(TeamHeader, << <<TxT1, <<>>, TxTen>>, <<TxT1Lower, TxKR, TxSixty>> >>),
      StatsPage(TeamHeader, << <<TxBlank, TxKR, TxTen>> >>),
      StatsPage(TeamHeader, <<>>),
      NoTablePage, BrokenPage }

\* The snapshot directories: missing, empty, and with the files of two
\* seasons of which one may be unreadable.
TournamentPages == { PageOf(<<RowGame1>>), PageOf(<<RowNoSuchDay>>), PageOf(<<>>), NoTablePage }
Directories ==
    { NoneObj, [files |-> {}] }
    \cup { [files |-> {SnapshotFile(TxS14, "html", p)}] : p \in TournamentPages }
    \cup { [files |-> {SnapshotFile(TxS14, "html", PageOf(<<RowGame1>>)),
                       SnapshotFile(TxS15, c, PageOf(<<RowGame2>>))}] :
             c \in {"html", "OSError", "UnicodeDecodeError"} }
    \cup { [files |-> {SnapshotFile(<<>>, "html", PageOf(<<RowGame1>>))}] }

ChampionRequests ==
    { [ source_url |-> s, file_path |-> p, save_to_db |-> b, season_name |-> n ] :
        s \in {NoneObj, UrlSource}, p \in {NoneObj, AbsSource, RelSource}, b \in BOOLEAN,
        n \in {NoneText, TxS15} }

TeamRequests ==
    { [ source_url |-> s, save_to_db |-> b, season_name |-> n ] :
        s \in {NoneObj, UrlSource}, b \in BOOLEAN, n \in {NoneText, TxS15} }

MatchRequests ==
    { [ tournament_names |-> names, tournament_ids |-> tids, save_to_db |-> b ] :
        names \in {JsonNull, JsonList(<<TxLEC>>), JsonString(TxLEC)},
        tids \in {JsonNull, JsonString(TxTen)}, b \in BOOLEAN }

TournamentRequests ==
    { [ seasons |-> s, save_to_db |-> b ] :
        s \in {JsonNull, JsonList(<<>>), JsonList(<<TxS15>>), JsonList(<<TxS14, TxS15>>),
               JsonString(TxS15)},
        b \in BOOLEAN }

\* What a request for a page meets: the network answers with one of the
\* pages, or times out (a local file then still holds a page).
Meets(pages) ==
    { [net |-> "timeout", page |-> NoTablePage] }
        \cup { [net |-> "ok", page |-> p] : p \in pages }

\* What the pages of the tournaments meet when the match endpoint is posted.
EndpointServes ==
    Meets({ PageOf(<<RowGame1>>), PageOf(<<>>), PageOf(<<RowNoSuchDay>>), NoTablePage })

\* A storage fault is set only where the request asks to persist.
Faults(request) == IF request.save_to_db THEN 0..1 ELSE {0}

\* ---- the endpoints posted to ----

\* What is kept of a request: the endpoint, the body, what it met, the store
\* and the requests sent before it, and what the call came to.
EndpointRun(endpoint, request, met, e) ==
    [ endpoint |-> endpoint, request |-> request, met |-> met,
      before |-> store, nsent_before |-> nsent,
      scraped |-> IF e.scraped = NoneObj THEN NoneObj
                  ELSE [payload |-> e.scraped.payload, raised |-> e.scraped.raised],
      persist |-> e.persist, response |-> e.response ]

Posted(endpoint, request, met, e) ==
    /\ nruns' = nruns + 1
    /\ run' = EndpointRun(endpoint, request, met, e)
    /\ store' = e.store
    /\ ids' = e.ids
    /\ SetFetcher(e.fetcher)
    /\ UNCHANGED <<delay, ncalls, fs, scraped, team_cache, doc, parsed, nedits, calls>>

\* POST /scrapers/scrape-champions/
PostScrapeChampions ==
    \E request \in ChampionRequests, met \in Meets(ChampionPages) :
        /\ nruns < MaxRequests
        /\ Posted("scrape_champions", request, met,
                  ScrapeChampions(request, met.net, met.page))

\* POST /scrapers/scrape-teams/
PostScrapeTeams ==
    \E request \in TeamRequests, met \in Meets(TeamPages) :
        \E fault \in Faults(request) :
            /\ nruns < MaxRequests
            /\ Posted("scrape_teams", request,
                      [net |-> met.net, page |-> met.page, fault |-> fault],
                      ScrapeTeams(request, met.net, met.page, fault))

\* POST /scrapers/scrape-matches/
PostScrapeMatches ==
    \E request \in MatchRequests, serve \in EndpointServes :
        \E fault \in Faults(request) :
            /\ nruns < MaxRequests
            /\ Posted("scrape_matches", request, [serve |-> serve, fault |-> fault],
                      ScrapeMatches(request,
                                    [id \in { t.id : t \in store.tournaments } |-> serve],
                                    fault))

\* POST /scrapers/scrape-tournaments/
PostScrapeTournaments ==
    \E request \in TournamentRequests, directory \in Directories :
        \E fault \in Faults(request) :
            /\ nruns < MaxRequests
            /\ Posted("scrape_tournaments", request,
                      [directory |-> directory, fault |-> fault],
                      ScrapeTournamentsEndpoint(request, directory, fault))

-----------------------------------------------------------------------------
(***************************************************************************)
(* The specifications                                                      *)
(***************************************************************************)

\* A scraper that has made no request, on a machine without snapshot files.
IdleFetch ==
    /\ clock = Epoch
    /\ delay = DefaultDelay
    /\ last_request_time = 0
    /\ requests = <<>>
    /\ nsent = 0
    /\ ncalls = 0
    /\ fetched = NoneObj
    /\ logged = NoneObj
    /\ fs = [p \in { ResolvePath(s) : s \in Sources } |-> "absent"]
    /\ scraped = NoneObj

IdleStore ==
    /\ store = EmptyStore
    /\ ids = FirstIds

IdleParse ==
    /\ team_cache = <<>>
    /\ doc = NoneObj
    /\ parsed = NoneObj

IdleScrape ==
    /\ run = NoneObj
    /\ nruns = 0
    /\ nedits = 0

IdlePersist == calls = <<>>

\* A store that holds a team entered without a region.
StoreWithRegionlessTeam ==
    [EmptyStore EXCEPT !.teams = {[id |-> 1, name |-> TxT1, region |-> <<>>]}]

\* A store that holds a placeholder team, as MatchScraper creates it.
StoreWithPlaceholderTeam ==
    [EmptyStore EXCEPT !.teams = {[id |-> 1, name |-> TxT1, region |-> Unknown]}]

InitFetch ==
    /\ clock = Epoch
    /\ delay = DefaultDelay
    /\ last_request_time = 0
    /\ requests = <<>>
    /\ nsent = 0
    /\ ncalls = 0
    /\ fetched = NoneObj
    /\ logged = NoneObj
    /\ fs \in FileSystems
    /\ scraped = NoneObj
    /\ IdleStore
    /\ IdleParse
    /\ IdleScrape
    /\ IdlePersist

NextFetch ==
    \/ FetchPageCall
    \/ ChampionScrape
    \/ TeamScrape

SpecFetch == InitFetch /\ [][NextFetch]_vars

InitParse ==
    /\ IdleFetch
    /\ \/ IdleStore
       \/ store = StoreWithRegionlessTeam /\ ids = [FirstIds EXCEPT !.teams = 2]
    /\ team_cache = <<>>
    /\ doc \in Documents
    /\ parsed = NoneObj
    /\ IdleScrape
    /\ IdlePersist

NextParse ==
    \/ TeamExtractTableData
    \/ MatchParseTable
    \/ TournamentParseTable

SpecParse == InitParse /\ [][NextParse]_vars

\* A MatchScraper just constructed, over a store that holds the tournaments
\* (stored with next ids 3) and possibly a team without a region.
InitMatchScrape ==
    /\ IdleFetch
    /\ \/ /\ store = StoreWithTournaments
          /\ ids = [FirstIds EXCEPT !.tournaments = 3]
       \/ /\ store = [StoreWithTournaments EXCEPT !.teams = StoreWithRegionlessTeam.teams]
          /\ ids = [FirstIds EXCEPT !.tournaments = 3, !.teams = 2]
    /\ IdleParse
    /\ IdleScrape
    /\ IdlePersist

NextMatchScrape ==
    \/ MatchScrape
    \/ ApiUpdateTeam
    \/ ApiDeleteTeam

SpecMatchScrape == InitMatchScrape /\ [][NextMatchScrape]_vars

\* A store with two teams, the two tournaments, a patch, and two games of the
\* same day between the same teams (Game has no unique key).
SeededStore ==
    [StoreWithTournaments EXCEPT
        !.teams = { [id |-> 1, name |-> TxT1, region |-> TxKR],
                    [id |-> 2, name |-> TxG2, region |-> Unknown] },
        !.patches = { [id |-> 1, version_num |-> TxPatch1, date |-> TxDay1] },
        !.games = { [id |-> 1, date |-> TxDay1, blue_team |-> 1, red_team |-> 2],
                    [id |-> 2, date |-> TxDay1, blue_team |-> 1, red_team |-> 2] }]

SeededIds ==
    [FirstIds EXCEPT !.teams = 3, !.tournaments = 3, !.patches = 2, !.games = 3]

\* No persist call made yet, on an empty or a seeded store.
InitPersist ==
    /\ IdleFetch
    /\ \/ IdleStore
       \/ store = SeededStore /\ ids = SeededIds
    /\ IdleParse
    /\ IdleScrape
    /\ IdlePersist

NextPersist ==
    \/ BaseScraperSave
    \/ TeamScraperSave
    \/ MatchScraperSave
    \/ TournamentScraperSave
    \/ PersistAgain

SpecPersist == InitPersist /\ [][NextPersist]_vars

\* A cell text handed to one coercer of one scraper.
InitCoerce ==
    /\ IdleFetch
    /\ IdleStore
    /\ team_cache = <<>>
    /\ doc \in { [kind |-> "cell", text |-> text] : text \in CoercerInputs }
    /\ parsed = NoneObj
    /\ IdleScrape
    /\ IdlePersist

NextCoerce ==
    \/ ChampionPercentage
    \/ ChampionInteger
    \/ ChampionFloat
    \/ ChampionDuration
    \/ TeamPercent
    \/ TeamInt
    \/ TeamFloat
    \/ TeamDuration

SpecCoerce == InitCoerce /\ [][NextCoerce]_vars

\* A table of champion rows or a team row handed to its row mapper, over an
\* empty store or one that holds a team without a region or a placeholder team.
InitRows ==
    /\ IdleFetch
    /\ \/ IdleStore
       \/ store = StoreWithRegionlessTeam /\ ids = [FirstIds EXCEPT !.teams = 2]
       \/ store = StoreWithPlaceholderTeam /\ ids = [FirstIds EXCEPT !.teams = 2]
    /\ team_cache = <<>>
    /\ doc \in RowDocuments
    /\ parsed = NoneObj
    /\ IdleScrape
    /\ IdlePersist

NextRows ==
    \/ ChampionParseTableRows
    \/ TeamConvertRow
    \/ TeamSaveConverted

SpecRows == InitRows /\ [][NextRows]_vars

\* A store that holds two tournaments, a team with its region and a team
\* with an empty region.
StoreForEndpoints ==
    [StoreWithTournaments EXCEPT
        !.teams = { [id |-> 1, name |-> TxT1, region |-> TxKR],
                    [id |-> 2, name |-> TxG2, region |-> <<>>] }]

\* The four scraper endpoints, posted to in any order over that store and a
\* file system that holds a snapshot of the champion page.
InitEndpoint ==
    /\ clock = Epoch
    /\ delay = DefaultDelay
    /\ last_request_time = 0
    /\ requests = <<>>
    /\ nsent = 0
    /\ ncalls = 0
    /\ fetched = NoneObj
    /\ logged = NoneObj
    /\ fs \in { f \in FileSystems : f[ResolvePath(AbsSource)] = "file"
                                       /\ f[ResolvePath(RelSource)] = "absent" }
    /\ scraped = NoneObj
    /\ store = StoreForEndpoints
    /\ ids = [FirstIds EXCEPT !.tournaments = 3, !.teams = 3]
    /\ IdleParse
    /\ IdleScrape
    /\ IdlePersist

NextEndpoint ==
    \/ PostScrapeChampions
    \/ PostScrapeTeams
    \/ PostScrapeMatches
    \/ PostScrapeTournaments

SpecEndpoint == InitEndpoint /\ [][NextEndpoint]_vars

-----------------------------------------------------------------------------
(* Claims about the fetcher, checked under SpecFetch *)

FetchFailed == fetched # NoneObj /\ fetched.outcome # "ok"

\* C5 (as stated): fetch_page never raises on a network failure; it returns a
\* failure value, and that value carries the URL and the underlying cause.
C5_FailureValueCarriesUrlAndCause ==
    FetchFailed =>
        /\ ~fetched.raised
        /\ fetched.value # NoneObj
        /\ {"url", "cause"} \subseteq DOMAIN fetched.value
        /\ fetched.value.url = fetched.url
        /\ fetched.value.cause = fetched.outcome

\* C5 (amended): on a network failure fetch_page does not raise and returns
\* NoneObj; the URL and the cause go to the error log only.
C5_FailureIsNoneAndLogged ==
    FetchFailed =>
        /\ ~fetched.raised
        /\ fetched.value = NoneObj
        /\ logged = [url |-> fetched.url, cause |-> fetched.outcome]

C5_Witness ==
    /\ FetchFailed
    /\ fetched.outcome = "timeout"
    /\ fetched.value = NoneObj

\* C6: between two successive network requests of one scraper at least `delay`
\* passes, counted from the end of the earlier one to the sending of the later.
C6_DelaySinceEndOfPrevious ==
    Len(requests) = 2 => requests[2].sent >= requests[1].end + delay

ScrapedLocalFile ==
    /\ scraped # NoneObj
    /\ scraped.source # NoneObj
    /\ IsExistingFile(fs, scraped.source)

BypassedNetwork ==
    /\ scraped.opened = ResolvePath(scraped.source)
    /\ scraped.nsent_after = scraped.nsent_before
    /\ scraped.lrt_after = scraped.lrt_before
    /\ scraped.slept = 0

\* C7 (as stated): when the source of ChampionScraper.scrape or
\* TeamScraper.scrape resolves to an existing local file, that file is read, no
\* network request is sent and the rate limiter is left alone.
C7_LocalFileBypass ==
    ScrapedLocalFile => BypassedNetwork

\* C7 (amended): the same for ChampionScraper.scrape alone.
C7_ChampionLocalFileBypass ==
    (ScrapedLocalFile /\ scraped.scraper = "champion") => BypassedNetwork

\* A champion scrape of a local file at a moment when fetch_page would sleep.
C7_Witness ==
    /\ ScrapedLocalFile
    /\ scraped.scraper = "champion"
    /\ scraped.source_type = "file"
    /\ nsent >= 1
    /\ clock - last_request_time < delay

-----------------------------------------------------------------------------
(* Claims about the table parsers, checked under SpecParse *)

\* The parser found no table of its kind in the document.
LacksTargetTable ==
    ParseHtml(doc) # NoneObj /\ FindTable(ParseHtml(doc), parsed.target) = NoneObj

\* The parser found its table and took no record from it.
TableWithoutDataRows ==
    /\ ParseHtml(doc) # NoneObj
    /\ FindTable(ParseHtml(doc), parsed.target) # NoneObj
    /\ ~parsed.raised
    /\ parsed.count = 0

\* C3: each table parser answers a document without its table with an error,
\* and a document with the table but no data rows with count 0 and no error.
C3_EmptyTableIsNotAnError ==
    parsed # NoneObj =>
        /\ LacksTargetTable => (parsed.error # NoneText /\ parsed.count = 0)
        /\ TableWithoutDataRows => parsed.error = NoneText

-----------------------------------------------------------------------------
(***************************************************************************)
(* Claims about MatchScraper.scrape                                        *)
(***************************************************************************)

ReturnedMatchRun == run # NoneObj /\ run.scraper = "match" /\ ~run.raised

\* The match rows of the payload of the last scrape call.
MatchRowsOf(payload) ==
    UNION { { payload.match_sets[i].matches[j] :
                j \in 1..Len(payload.match_sets[i].matches) } :
            i \in 1..Len(payload.match_sets) }

\* The team references of the rows: the trimmed name of the cell, and the
\* handle the row was given.
TeamRefs(payload) ==
    { [name |-> Strip(r.team_one_name), id |-> r.team_one_id,
       resolved_name |-> r.team_one_resolved_name] : r \in MatchRowsOf(payload) }
    \cup
    { [name |-> Strip(r.team_two_name), id |-> r.team_two_id,
       resolved_name |-> r.team_two_resolved_name] : r \in MatchRowsOf(payload) }

NamedTeamRefs(payload) == { ref \in TeamRefs(payload) : ref.name # <<>> }

\* C4: a source of MatchScraper.scrape that fails to fetch or parse never
\* makes scrape raise: scrape returns, every tournament has its entry in
\* match_sets, and the entry of a failed source carries a non-null error that
\* is also in the payload's errors list.
C4_FailureStaysInPayload ==
    (run # NoneObj /\ run.scraper = "match") =>
        /\ ~run.raised
        /\ Len(run.payload.match_sets) = Len(run.sources)
        /\ \A i \in 1..Len(run.sources) :
              SourceFails(run.served[i]) =>
                  /\ run.payload.match_sets[i].error # NoneText
                  /\ \E k \in 1..Len(run.payload.errors) :
                        run.payload.errors[k] = run.payload.match_sets[i].error

\* C8: within one scrape run of MatchScraper, two rows with the same trimmed
\* team name get the same team id, no name goes to the store more than once,
\* and names that differ only in case get different team ids.
C8_MemoizedByExactName ==
    ReturnedMatchRun =>
        /\ \A a, b \in NamedTeamRefs(run.payload) :
              /\ a.name = b.name => a.id = b.id
              /\ (a.name # b.name /\ Lower(a.name) = Lower(b.name)) => a.id # b.id
        /\ \A i, j \in 1..Len(run.trips) : i # j => run.trips[i] # run.trips[j]

\* C9: no team handle of an earlier scrape call is served by a later one on
\* the same instance: every team a returned row refers to is, under that id
\* and name, in the store as the call left it.
C9_NoStaleHandleAcrossRuns ==
    ReturnedMatchRun =>
        \A ref \in NamedTeamRefs(run.payload) :
            \E t \in run.teams : t.id = ref.id /\ t.name = ref.resolved_name

-----------------------------------------------------------------------------
(***************************************************************************)
(* Claims about the persist operations                                     *)
(***************************************************************************)

RECURSIVE RecordsOf(_, _)
\* The records of the groups of a payload, in the order they are persisted.
RecordsOf(groups, field) ==
    IF groups = <<>> THEN <<>>
    ELSE [r \in 1..Len(groups[1][field]) |-> [group |-> groups[1], entry |-> groups[1][field][r]]]
         \o RecordsOf(Tail(groups), field)

\* The candidate records of a call.
CallRecords(call) ==
    CASE call.op = "BaseScraper.save_to_database" -> call.args.data
      [] call.op = "TeamScraper.save_stats_to_database" -> call.args.team_stats
      [] call.op = "MatchScraper.save_matches_to_database" ->
             RecordsOf(call.args.match_sets, "matches")
      [] call.op = "TournamentScraper.save_to_database" ->
             RecordsOf(call.args.tournament_sets, "tournaments")

\* Whether the operation can persist the record into the store `st`.
Persistable(call, rec, st) ==
    CASE call.op = "BaseScraper.save_to_database" ->
             ~IntegrityError(call.args.model_class, NewRow(0, rec.lookup, rec.defaults),
                             st.teams)
      [] call.op = "TeamScraper.save_stats_to_database" ->
             /\ ~Falsy(rec.team_name)
             /\ ~Falsy(Or(rec.season, call.args.season_name))
      [] call.op = "MatchScraper.save_matches_to_database" ->
             /\ rec.group.tournament_id \in { t.id : t \in st.tournaments }
             /\ rec.entry.match_url # <<>>
             /\ rec.entry.team_one_id \in { t.id : t \in st.teams }
             /\ rec.entry.team_two_id \in { t.id : t \in st.teams }
             /\ ~CoerceDate(Or(rec.entry.date_iso, rec.entry.date_text)).raised
      [] call.op = "TournamentScraper.save_to_database" ->
             /\ ~Falsy(rec.entry.name)
             /\ ~LastGameDate(rec.entry.last_game).raised

\* The natural key of a record.
NaturalKey(call, rec) ==
    CASE call.op = "BaseScraper.save_to_database" -> rec.lookup
      [] call.op = "TeamScraper.save_stats_to_database" ->
             << rec.team_name, Or(rec.season, call.args.season_name) >>
      [] call.op = "MatchScraper.save_matches_to_database" -> << rec.entry.match_url >>
      [] call.op = "TournamentScraper.save_to_database" ->
             << rec.entry.name,
                OrEmpty(Or(rec.entry.season, Or(rec.group.season, rec.group.file_name))) >>

\* Whether the store `st` holds a row under the natural key of the record.
Held(call, rec, st) ==
    CASE call.op = "BaseScraper.save_to_database" ->
             Matching(st[call.args.model_class], rec.lookup) # {}
      [] call.op = "TeamScraper.save_stats_to_database" ->
             \E row \in st.stats, t \in st.teams, sn \in st.seasons :
                 /\ row.team = t.id /\ row.season = sn.id
                 /\ << t.name, sn.name >> = NaturalKey(call, rec)
      [] call.op = "MatchScraper.save_matches_to_database" ->
             \E row \in st.matches : row.match_url = rec.entry.match_url
      [] call.op = "TournamentScraper.save_to_database" ->
             \E row \in st.tournaments :
                 << row.name, row.season_name >> = NaturalKey(call, rec)

\* A batch of records that are all persistable, none of them held by the
\* store before the call, no two of them under the same natural key.
FreshBatch(call) ==
    /\ \A i \in 1..Len(CallRecords(call)) :
          /\ Persistable(call, CallRecords(call)[i], call.before)
          /\ ~Held(call, CallRecords(call)[i], call.before)
    /\ \A i, j \in 1..Len(CallRecords(call)) :
          i # j => NaturalKey(call, CallRecords(call)[i]) # NaturalKey(call, CallRecords(call)[j])

Repeated == Len(calls) >= 2 /\ calls[1].fault = 0

\* C1: for a batch of N persistable records with pairwise different natural
\* keys, none of them in the store, the first call of a persist operation
\* reports created=N and updated=0, the second call with the same batch
\* reports created=0 and updated=N, and the store after the second call
\* equals the store after the first.
C1_SecondCallIsPureUpdate ==
    (Repeated /\ FreshBatch(calls[1])) =>
        /\ ~calls[1].raised /\ ~calls[2].raised
        /\ calls[1].created = Len(CallRecords(calls[1])) /\ calls[1].updated = 0
        /\ calls[2].created = 0 /\ calls[2].updated = Len(CallRecords(calls[1]))
        /\ calls[2].after = calls[1].after

\* C2: a persist call that meets a hard storage fault at a record of its
\* batch leaves the store as it was before the call.
C2_FaultLeavesStoreUnchanged ==
    \A i \in 1..Len(calls) : calls[i].faulted => calls[i].after = calls[i].before

\* C10: a persist call in which the lookup of a record matched more than one
\* row fails to its caller: it does not return its (created, updated) result.
C10_AmbiguousLookupRaises ==
    \A i \in 1..Len(calls) : calls[i].ambiguous => calls[i].raised

\* The natural keys of the rows of a store.
TeamKeysUnique(st) == \A a, b \in st.teams : a.name = b.name => a = b
SeasonKeysUnique(st) == \A a, b \in st.seasons : a.name = b.name => a = b
TournamentKeysUnique(st) ==
    \A a, b \in st.tournaments :
        (a.name = b.name /\ a.season_name = b.season_name) => a = b
MatchKeysUnique(st) == \A a, b \in st.matches : a.match_url = b.match_url => a = b
StatsKeysUnique(st) ==
    \A a, b \in st.stats : (a.team = b.team /\ a.season = b.season) => a = b

\* C11: after any sequence of persist calls, batches that repeat a key and
\* repeated calls included, the store holds at most one Team per name, one
\* Season per name, one Tournament per (name, season_name), one Match per
\* match_url and one TeamSeasonStats per (team, season).
C11_NaturalKeysUnique ==
    /\ TeamKeysUnique(store)
    /\ SeasonKeysUnique(store)
    /\ TournamentKeysUnique(store)
    /\ MatchKeysUnique(store)
    /\ StatsKeysUnique(store)

\* A batch with two persistable records under one natural key was persisted
\* twice, and the second call wrote both.
C11_Witness ==
    /\ Len(calls) >= 2
    /\ calls[1].op # "BaseScraper.save_to_database"
    /\ ~calls[2].raised /\ calls[2].updated >= 2
    /\ \E i, j \in 1..Len(CallRecords(calls[1])) :
          /\ i # j
          /\ Persistable(calls[1], CallRecords(calls[1])[i], calls[1].before)
          /\ Persistable(calls[1], CallRecords(calls[1])[j], calls[1].before)
          /\ NaturalKey(calls[1], CallRecords(calls[1])[i])
             = NaturalKey(calls[1], CallRecords(calls[1])[j])

\* ---- Skipped rows ----

\* Whether the record lacks a reference the operation requires, against the
\* store `st` the call started from.
MissingReference(call, rec, st) ==
    CASE call.op = "TeamScraper.save_stats_to_database" ->
             Falsy(rec.team_name) \/ Falsy(Or(rec.season, call.args.season_name))
      [] call.op = "MatchScraper.save_matches_to_database" ->
             \/ rec.group.tournament_id \notin { t.id : t \in st.tournaments }
             \/ rec.entry.match_url = <<>>
             \/ rec.entry.team_one_id \notin { t.id : t \in st.teams }
             \/ rec.entry.team_two_id \notin { t.id : t \in st.teams }
      [] OTHER -> FALSE

MissingRecords(call) ==
    { i \in 1..Len(CallRecords(call)) :
        MissingReference(call, CallRecords(call)[i], call.before) }

\* Whether an element of the skipped list reports the record with a reason:
\* a team row by its own fields, a match row by its fields, its group or the
\* tournament id of its group.
ReportsWithReason(skip, call, rec) ==
    /\ "reason" \in DOMAIN skip
    /\ CASE call.op = "TeamScraper.save_stats_to_database" ->
                \A f \in DOMAIN rec : f \in DOMAIN skip /\ skip[f] = rec[f]
         [] skip.reason = "missing_tournament_id" -> skip.group = rec.group
         [] skip.reason = "tournament_not_found" ->
                skip.tournament_id = rec.group.tournament_id
         [] OTHER -> /\ skip.match_url = rec.entry.match_url
                     /\ skip.team_one_id = rec.entry.team_one_id
                     /\ skip.team_two_id = rec.entry.team_two_id

\* The groups of a match call and the rows of its other groups that yield one
\* element of the skipped list each.
SkippedGroups(call) ==
    { g \in 1..Len(call.args.match_sets) :
        call.args.match_sets[g].tournament_id \notin { t.id : t \in call.before.tournaments } }

SkippedMatchRows(call) ==
    { i \in MissingRecords(call) :
        CallRecords(call)[i].group.tournament_id \in { t.id : t \in call.before.tournaments } }

SkippedOnce(call) ==
    IF call.op = "TeamScraper.save_stats_to_database"
    THEN Len(call.skipped) = Cardinality(MissingRecords(call))
    ELSE Len(call.skipped) =
             Cardinality(SkippedGroups(call)) + Cardinality(SkippedMatchRows(call))

SkipsReferences(call) ==
    call.op \in { "TeamScraper.save_stats_to_database",
                  "MatchScraper.save_matches_to_database" }

\* C12: every input row that a team-stats or match persist call does not
\* write because a required reference is missing appears in the returned
\* skipped list together with a structured reason, is not written to the
\* store, and is handled at most once in that call.
C12_SkippedWithReason ==
    \A c \in 1..Len(calls) :
        (SkipsReferences(calls[c]) /\ ~calls[c].raised) =>
            /\ \A i \in MissingRecords(calls[c]) :
                  \E k \in 1..Len(calls[c].skipped) :
                      ReportsWithReason(calls[c].skipped[k], calls[c], CallRecords(calls[c])[i])
            /\ calls[c].created + calls[c].updated
                   = Len(CallRecords(calls[c])) - Cardinality(MissingRecords(calls[c]))
            /\ SkippedOnce(calls[c])

\* The same property for the match operation alone, where every skipped
\* element carries a reason.
MatchSkipsCarryReason ==
    \A c \in 1..Len(calls) :
        (calls[c].op = "MatchScraper.save_matches_to_database" /\ ~calls[c].raised) =>
            /\ \A i \in MissingRecords(calls[c]) :
                  \E k \in 1..Len(calls[c].skipped) :
                      ReportsWithReason(calls[c].skipped[k], calls[c], CallRecords(calls[c])[i])
            /\ calls[c].created + calls[c].updated
                   = Len(CallRecords(calls[c])) - Cardinality(MissingRecords(calls[c]))
            /\ SkippedOnce(calls[c])


-----------------------------------------------------------------------------
(* Claims about the cell coercers, checked under SpecCoerce *)

Coerced == parsed # NoneObj

\* The default of the coercer that was called: the caller's for integer and
\* float, Decimal('0.00') for percent, None for duration.
DefaultOf(call) ==
    IF call.coercer = "percent" THEN Whole(0)
    ELSE IF call.coercer = "duration" THEN NoneObj
    ELSE call.default

\* C13: no coercer of ChampionScraper or TeamScraper ever raises: for every
\* cell text, malformed numeric text included, it returns a value, and the
\* value is the default for text that is no number at all.
C13_CoercersNeverRaise ==
    Coerced =>
        /\ ~Raises(parsed.result)
        /\ parsed.value \in {TxAbc, TxDigitsAbc, TxTwoPoints} => parsed.result = DefaultOf(parsed)

\* The coercers that catch what the conversion raises: the percent coercer of
\* TeamScraper never raises.
TeamPercentNeverRaises ==
    (Coerced /\ parsed.scraper = "TeamScraper" /\ parsed.coercer = "percent") =>
        ~Raises(parsed.result)

\* C14: for each of the inputs '', '-' and None, every coercer returns its
\* default (the caller's for integer and float, Decimal 0.00 for percent,
\* None for duration) and does not raise.
C14_MissingGivesDefault ==
    (Coerced /\ parsed.value \in {<<>>, <<"-">>, NoneText}) =>
        parsed.result = DefaultOf(parsed)

\* A caller's own default came back for the placeholder '-'.
C14_Witness ==
    /\ Coerced
    /\ parsed.value = <<"-">>
    /\ parsed.coercer = "integer"
    /\ parsed.default = Whole(7)
    /\ parsed.result = Whole(7)

\* Digits, an optional fractional part, an optional trailing '%'.
WithoutSign(text) ==
    IF text # <<>> /\ text[Len(text)] = "%" THEN SubSeq(text, 1, Len(text) - 1) ELSE text

IsPercentText(text) ==
    /\ text # NoneText
    /\ Len(Split(WithoutSign(text), ".")) \in {1, 2}
    /\ \A i \in 1..Len(Split(WithoutSign(text), ".")) : IsDigits(Split(WithoutSign(text), ".")[i])

\* Whether a number lies in [0,100].
WithinHundred(v) ==
    /\ v.kind = "number"
    /\ ~v.neg
    /\ \/ v.coef = 0
       \/ v.exp < 0 /\ DropDigits(v.coef, 0 - v.exp) < 100
       \/ v.exp = 0 /\ v.coef <= 100
       \/ v.exp = 1 /\ v.coef <= 10
       \/ v.exp = 2 /\ v.coef <= 1

\* The percent coercer of the scraper that was called.
PercentOf(call, text) ==
    IF call.scraper = "ChampionScraper" THEN ChampionParsePercentage(text)
    ELSE ParsePercent(text)

\* The number that the digits and the fractional part write.
WrittenValue(text) ==
    Normal(FALSE, DigitsValue(IntPart(WithoutSign(text)) \o FracPart(WithoutSign(text))),
           0 - Len(FracPart(WithoutSign(text))))

\* C15: for every percent text made of digits, an optional fractional part
\* and an optional trailing '%', the percent coercer returns that numeric
\* value unchanged (not divided by 100), the same with and without the
\* trailing '%', and the returned value lies in [0,100].
C15_PercentUnchangedInRange ==
    (Coerced /\ parsed.coercer = "percent" /\ IsPercentText(parsed.value)) =>
        /\ parsed.result = WrittenValue(parsed.value)
        /\ parsed.result = PercentOf(parsed, WithoutSign(parsed.value))
        /\ parsed.result = PercentOf(parsed, WithoutSign(parsed.value) \o <<"%">>)
        /\ WithinHundred(parsed.result)

\* The same without the range: the value is the written one, with and
\* without the trailing '%'.
PercentUnchanged ==
    (Coerced /\ parsed.coercer = "percent" /\ IsPercentText(parsed.value)) =>
        /\ parsed.result = WrittenValue(parsed.value)
        /\ parsed.result = PercentOf(parsed, WithoutSign(parsed.value))
        /\ parsed.result = PercentOf(parsed, WithoutSign(parsed.value) \o <<"%">>)

\* The parts of a duration text and whether each writes an integer.
DurationParts(text) == IF text = NoneText THEN <<>> ELSE Split(text, ":")
IsIntegerText(part) == IsDigits(Unsigned(part))
IntegerParts(text) ==
    /\ Len(DurationParts(text)) \in {2, 3}
    /\ \A i \in 1..Len(DurationParts(text)) : IsIntegerText(DurationParts(text)[i])

IntegerValue(part) ==
    IF Negative(part) THEN 0 - DigitsValue(Unsigned(part)) ELSE DigitsValue(Unsigned(part))

\* The seconds that the parts write, for parts short enough to add up.
WrittenSeconds(parts) ==
    IF Len(parts) = 2 THEN 60 * IntegerValue(parts[1]) + IntegerValue(parts[2])
    ELSE 3600 * IntegerValue(parts[1]) + 60 * IntegerValue(parts[2]) + IntegerValue(parts[3])

ShortParts(parts) == \A i \in 1..Len(parts) : Len(parts[i]) <= 5

\* C16: the duration coercer gives M minutes S seconds for text of two
\* colon-separated integers 'M:S', H hours M minutes S seconds for text of
\* three 'H:M:S', and None for any other text.
C16_DurationOfParts ==
    (Coerced /\ parsed.coercer = "duration") =>
        IF IntegerParts(parsed.value)
        THEN /\ parsed.result.kind = "timedelta"
             /\ ShortParts(DurationParts(parsed.value)) =>
                    86400 * parsed.result.days + parsed.result.seconds
                        = WrittenSeconds(DurationParts(parsed.value))
        ELSE parsed.result = NoneObj

\* The same for parts of at most five digits.
DurationOfShortParts ==
    (Coerced /\ parsed.coercer = "duration" /\ parsed.value # TxAges) =>
        IF IntegerParts(parsed.value)
        THEN /\ parsed.result.kind = "timedelta"
             /\ 86400 * parsed.result.days + parsed.result.seconds
                    = WrittenSeconds(DurationParts(parsed.value))
        ELSE parsed.result = NoneObj


-----------------------------------------------------------------------------
(* Claims about the row mappers, checked under SpecParse and SpecRows *)

\* C17: a row whose natural-key field is blank is never emitted as a record:
\* no team_stats entry of TeamScraper has a blank team_name and no match row
\* of MatchScraper has a blank match_url (for ChampionScraper see
\* ChampionNameNeverBlank).
C17_BlankKeyNeverEmitted ==
    (parsed # NoneObj /\ ~parsed.raised) =>
        /\ parsed.parser = "team" =>
              \A i \in 1..Len(parsed.result.team_stats) :
                  /\ "team_name" \in DOMAIN parsed.result.team_stats[i]
                  /\ parsed.result.team_stats[i].team_name # <<>>
        /\ parsed.parser = "match" =>
              \A i \in 1..Len(parsed.result.rows) : parsed.result.rows[i].match_url # <<>>

\* The part of C17 about ChampionScraper, under SpecRows: no champion record
\* has a blank name.
ChampionNameNeverBlank ==
    (parsed # NoneObj /\ parsed.coercer = "rows") =>
        \A i \in 1..Len(parsed.result.champions) :
            parsed.result.champions[i].lookup.name # <<>>


\* The keys of COLUMN_MAPPING, and the entry of a key.
MappingKeys == { c.header : c \in COLUMN_MAPPING }
MappingOf(key) == CHOOSE c \in COLUMN_MAPPING : c.header = key

\* The header text, trimmed and lower-cased.
HeaderKey(header) == Lower(Strip(header))

\* The columns of a row whose header matches a key, and those of a field.
MatchedColumns(columns) ==
    { i \in 1..Len(columns) : HeaderKey(columns[i].header) \in MappingKeys }
ColumnsOf(columns, field) ==
    { i \in MatchedColumns(columns) : MappingOf(HeaderKey(columns[i].header)).field = field }

TeamRowMapped == parsed # NoneObj /\ parsed.coercer = "row"

\* C18: in the row mapping of TeamScraper a header gives the record a field
\* exactly when its text, trimmed and lower-cased, is a key of
\* COLUMN_MAPPING; headers that match no key add no field; headers that
\* differ only in case or surrounding whitespace give the same field, filled
\* by the coercer of the key.
C18_HeadersMatchNormalised ==
    TeamRowMapped =>
        /\ DOMAIN parsed.result \ {"season"}
               = { MappingOf(HeaderKey(parsed.value[i].header)).field :
                       i \in MatchedColumns(parsed.value) } \ {"season"}
        /\ \A f \in DOMAIN parsed.result \ {"season"} :
              \E i \in ColumnsOf(parsed.value, f) :
                  parsed.result[f]
                      = ApplyParser(MappingOf(HeaderKey(parsed.value[i].header)).parser,
                                    parsed.value[i].cell)
        /\ ColumnsOf(parsed.value, "season") # {} => "season" \in DOMAIN parsed.result

\* A row with the header 'GAMES ' and the unmatched header 'Week' was mapped
\* to a record whose only field is games.
C18_Witness ==
    /\ TeamRowMapped
    /\ parsed.value = <<Column(TxGamesUpper, TxSixty), Column(TxWeek, TxTen)>>
    /\ parsed.default = NoneText
    /\ DOMAIN parsed.result = {"games"}


\* The season that the row itself supplies: the trimmed cell under its season
\* column, blank without such a column.
SeasonColumn(columns) == CHOOSE i \in ColumnsOf(columns, "season") : TRUE
RowSeason(columns) ==
    IF ColumnsOf(columns, "season") = {} THEN <<>>
    ELSE Strip(columns[SeasonColumn(columns)].cell)

\* The season of an entry as the persist operation reads it, '' for none.
SeasonOf(stats) == OrEmpty(Get(stats, "season", NoneText))

\* The names of the seasons that a persist call of the mapped row left in the
\* store, which held none before.
SeasonsAfter(call) == { s.name : s \in call.after.seasons }
PersistedEntry(call) == call.args.team_stats[1]
EntrySkipped(call) ==
    \/ Falsy(PersistedEntry(call).team_name)
    \/ Falsy(PersistedEntry(call).season) /\ Falsy(call.args.season_name)

-----------------------------------------------------------------------------
(* Claims about placeholder teams *)

\* A scrape call of MatchScraper that returned, as a step.
MatchScrapeReturned == run' # run /\ run'.scraper = "match" /\ ~run'.raised

\* C20: when a team name is resolved and no Team with that name is in the
\* store, exactly one Team is created for it, with region 'Unknown' when the
\* scraper has no region for it (always in MatchScraper), and no Team is left
\* in the store with an empty region by the resolution.
C20_PlaceholderCreated ==
    [][ MatchScrapeReturned =>
            \A ref \in NamedTeamRefs(run'.payload) :
                /\ TeamsNamed(store.teams, ref.name) = {} =>
                      /\ Cardinality(TeamsNamed(store'.teams, ref.name)) = 1
                      /\ \A t \in TeamsNamed(store'.teams, ref.name) : t.region = Unknown
                /\ \A t \in TeamsNamed(store'.teams, ref.name) : t.region # <<>> ]_vars

\* The same for the first scrape call of an instance, whose cache is empty.
PlaceholderCreatedByFirstRun ==
    [][ (MatchScrapeReturned /\ nruns = 0) =>
            \A ref \in NamedTeamRefs(run'.payload) :
                /\ TeamsNamed(store.teams, ref.name) = {} =>
                      /\ Cardinality(TeamsNamed(store'.teams, ref.name)) = 1
                      /\ \A t \in TeamsNamed(store'.teams, ref.name) : t.region = Unknown
                /\ \A t \in TeamsNamed(store'.teams, ref.name) : t.region # <<>> ]_vars

\* The part of C20 about TeamScraper.save_stats_to_database, under
\* SpecPersist: a row with a team name that the store does not hold leaves
\* one Team of that name, with region 'Unknown' when no row of the name
\* carries a region, and never with an empty region.
StatsPlaceholderCreated ==
    \A c \in 1..Len(calls) :
        (calls[c].op = "TeamScraper.save_stats_to_database" /\ ~calls[c].raised) =>
            \A i \in 1..Len(CallRecords(calls[c])) :
                (/\ Persistable(calls[c], CallRecords(calls[c])[i], calls[c].before)
                 /\ TeamsNamed(calls[c].before.teams, CallRecords(calls[c])[i].team_name) = {}) =>
                    /\ Cardinality(TeamsNamed(calls[c].after.teams,
                                              CallRecords(calls[c])[i].team_name)) = 1
                    /\ \A t \in TeamsNamed(calls[c].after.teams,
                                           CallRecords(calls[c])[i].team_name) :
                          /\ t.region # <<>>
                          /\ (\A j \in 1..Len(CallRecords(calls[c])) :
                                  CallRecords(calls[c])[j].team_name = t.name =>
                                      Strip(OrEmpty(CallRecords(calls[c])[j].region)) = <<>>)
                                 => t.region = Unknown

-----------------------------------------------------------------------------
(* Claims about the region of a stored team *)

\* The rows of a save_stats_to_database call that are persisted and name a
\* team the store held before the call, with a region (stripped) that is not
\* blank and differs from the stored one, no later row of the call carrying
\* another region for the team.
StatsCalls == { c \in 1..Len(calls) : calls[c].op = "TeamScraper.save_stats_to_database"
                                       /\ ~calls[c].raised }
ObservedRegion(rec) == Strip(OrEmpty(rec.region))
LastObservation(call, i) ==
    \A j \in (i + 1)..Len(CallRecords(call)) :
        (/\ Persistable(call, CallRecords(call)[j], call.before)
         /\ CallRecords(call)[j].team_name = CallRecords(call)[i].team_name) =>
            ObservedRegion(CallRecords(call)[j]) \in {<<>>, ObservedRegion(CallRecords(call)[i])}
MetAgain(call, i, t) ==
    /\ Persistable(call, CallRecords(call)[i], call.before)
    /\ t \in call.before.teams
    /\ t.name = CallRecords(call)[i].team_name
    /\ ObservedRegion(CallRecords(call)[i]) \notin {<<>>, t.region}
    /\ LastObservation(call, i)

\* The team keeps its identity: the store holds one Team of the name after
\* the call, under the id it had.
KeepsIdentity(call, t) ==
    { u.id : u \in TeamsNamed(call.after.teams, t.name) } = {t.id}

\* C21 (as stated): a stored team met again in a team-stats row with a
\* non-blank region different from the stored one has the observed region
\* after the call, under the same id and with no second Team of its name.
C21_RegionRefreshedInPlace ==
    \A c \in StatsCalls : \A i \in 1..Len(CallRecords(calls[c])) :
        \A t \in calls[c].before.teams :
            MetAgain(calls[c], i, t) =>
                /\ KeepsIdentity(calls[c], t)
                /\ Cardinality(TeamsNamed(calls[c].after.teams, t.name)) = 1
                /\ \A u \in TeamsNamed(calls[c].after.teams, t.name) :
                       u.region = ObservedRegion(CallRecords(calls[c])[i])

\* C21 (amended): the stored region becomes the observed region cut to the
\* 50 characters of the region column; the team keeps its id and no second
\* Team of its name is stored.
C21_RegionRefreshedToColumn ==
    \A c \in StatsCalls : \A i \in 1..Len(CallRecords(calls[c])) :
        \A t \in calls[c].before.teams :
            MetAgain(calls[c], i, t) =>
                /\ KeepsIdentity(calls[c], t)
                /\ Cardinality(TeamsNamed(calls[c].after.teams, t.name)) = 1
                /\ \A u \in TeamsNamed(calls[c].after.teams, t.name) :
                       u.region = Take(ObservedRegion(CallRecords(calls[c])[i]), 50)

\* A placeholder team was met again in a row with a region, which it now has.
C21_Witness ==
    \E c \in StatsCalls : \E t \in calls[c].before.teams :
        /\ t.region = Unknown
        /\ MetAgain(calls[c], 1, t)
        /\ \E u \in calls[c].after.teams : u.id = t.id /\ u.region = TxKR

-----------------------------------------------------------------------------
(* Claims about the payloads of scrape and the scraper endpoints *)

\* The endpoint calls that reached the scraper and got a payload back.
Returned(endpoint) ==
    /\ run # NoneObj
    /\ run.endpoint = endpoint
    /\ run.scraped # NoneObj
    /\ ~run.scraped.raised

\* A result tells of its source: it has an error field, null when the scrape
\* of the source succeeded and a message when it failed.
ErrorTells(result, failed) ==
    /\ "error" \in DOMAIN result
    /\ failed => ~Falsy(result.error)
    /\ ~failed => result.error = NoneText

\* Whether the source of a champion request fails: no source can be opened,
\* the request fails, or the page cannot be parsed.
ChampionSourceFails(request, met) ==
    \/ ChampionSource(fs, request.source_url, request.file_path).via = "none"
    \/ /\ ChampionSource(fs, request.source_url, request.file_path).via = "url"
       /\ met.net # "ok"
    \/ ParseHtml(met.page) = NoneObj

\* Whether the source of a team request fails: the request fails, the page
\* cannot be parsed, or it has no playerslist table.
TeamSourceFails(met) ==
    \/ met.net # "ok"
    \/ ParseHtml(met.page) = NoneObj
    \/ FindTable(met.page, "playerslist") = NoneObj

\* Whether a snapshot file fails: it cannot be read or parsed, or it has no
\* table.
FileFails(file) ==
    \/ file.content # "html"
    \/ ParseHtml(file.page) = NoneObj
    \/ FindTable(file.page, None) = NoneObj

\* C22: every payload of ChampionScraper.scrape and TeamScraper.scrape, and
\* every per-source result of MatchScraper.scrape and TournamentScraper.scrape,
\* has an error field that is null when the scrape of the source succeeded and
\* a message when it failed.
C22_EveryPayloadCarriesError ==
    /\ Returned("scrape_champions") =>
           ErrorTells(run.scraped.payload, ChampionSourceFails(run.request, run.met))
    /\ Returned("scrape_teams") =>
           ErrorTells(run.scraped.payload, TeamSourceFails(run.met))
    /\ Returned("scrape_matches") =>
           \A i \in 1..Len(run.scraped.payload.match_sets) :
               ErrorTells(run.scraped.payload.match_sets[i], SourceFails(run.met.serve))
    /\ Returned("scrape_tournaments") =>
           \A i \in 1..Len(run.scraped.payload.tournament_sets) :
               \A file \in run.met.directory.files :
                   file.name = run.scraped.payload.tournament_sets[i].file_name =>
                       ErrorTells(run.scraped.payload.tournament_sets[i], FileFails(file))

\* The payloads of the scrapers one at a time.
ChampionPayloadCarriesError ==
    Returned("scrape_champions") =>
        ErrorTells(run.scraped.payload, ChampionSourceFails(run.request, run.met))
TeamPayloadCarriesError ==
    Returned("scrape_teams") => ErrorTells(run.scraped.payload, TeamSourceFails(run.met))
MatchSetsCarryError ==
    Returned("scrape_matches") =>
        \A i \in 1..Len(run.scraped.payload.match_sets) :
            ErrorTells(run.scraped.payload.match_sets[i], SourceFails(run.met.serve))
TournamentSetsCarryError ==
    Returned("scrape_tournaments") =>
        \A i \in 1..Len(run.scraped.payload.tournament_sets) :
            \A file \in run.met.directory.files :
                file.name = run.scraped.payload.tournament_sets[i].file_name =>
                    ErrorTells(run.scraped.payload.tournament_sets[i], FileFails(file))


\* The champions that the tables of a page are mapped to.
ParsedChampions(page) == ChampionsData(PlayersListData(PlayersListTables(page)))

\* A scrape-champions request with save_to_db and a season_name, whose
\* source is obtained and whose table parses into champion rows.
ChampionsToStore ==
    /\ run # NoneObj
    /\ run.endpoint = "scrape_champions"
    /\ run.request.save_to_db
    /\ ~Falsy(run.request.season_name)
    /\ ~ChampionSourceFails(run.request, run.met)
    /\ ~ParsedChampions(run.met.page).raised
    /\ ParsedChampions(run.met.page).champions # <<>>

\* C23: the scrape-champions endpoint, called with save_to_db, a season_name
\* and a source whose table parses into champion rows, persists the rows,
\* answers with status success and not with the 500 response, and reports
\* the number of parsed champion rows as champions_parsed.
C23_ChampionsStoredAndCounted ==
    ChampionsToStore =>
        /\ run.response.code # 500
        /\ run.response.status = "success"
        /\ run.persist # NoneObj
        /\ run.response.body.champions_parsed = Len(ParsedChampions(run.met.page).champions)

\* The count alone: without save_to_db the endpoint answers with success and
\* reports the number of parsed champion rows.
ChampionsCountedWithoutSave ==
    (/\ run # NoneObj
     /\ run.endpoint = "scrape_champions"
     /\ ~run.request.save_to_db
     /\ ~ChampionSourceFails(run.request, run.met)
     /\ ~ParsedChampions(run.met.page).raised) =>
        /\ run.response.status = "success"
        /\ run.response.body.champions_parsed = Len(ParsedChampions(run.met.page).champions)


-----------------------------------------------------------------------------
(* Claims about the season filter of TournamentScraper.scrape *)

\* The scrape-tournaments calls whose scrape went through the files.
FilesScraped ==
    /\ Returned("scrape_tournaments")
    /\ "fatal_error" \notin DOMAIN run.scraped.payload

\* Whether a file was processed: a tournament set of the payload is its.
Processed(file) ==
    \E i \in 1..Len(run.scraped.payload.tournament_sets) :
        run.scraped.payload.tournament_sets[i].file_name = file.name

\* Whether a season is one of the requested seasons.
Requested(seasons, season) ==
    \E i \in 1..Len(Items(seasons)) : Items(seasons)[i] = season

-----------------------------------------------------------------------------
(* Claims about the header row of the team table *)

\* The position, among the rows of the table in document order, of the row
\* whose cells become the headers: the first row of <thead>, else the first
\* row of the table.
RECURSIVE RowsBeforeHead(_)
RowsBeforeHead(sections) ==
    IF sections = <<>> \/ (sections[1].kind = "thead" /\ sections[1].rows # <<>>) THEN 0
    ELSE Len(sections[1].rows) + RowsBeforeHead(Tail(sections))
HeaderPosition(table) ==
    IF \E i \in 1..Len(table.sections) :
           table.sections[i].kind = "thead" /\ table.sections[i].rows # <<>>
    THEN RowsBeforeHead(table.sections) + 1
    ELSE 1

\* Every row of the table but the header row, in document order, that has
\* td cells.
RowsButHeader(table) ==
    SelectSeq(SubSeq(AllRows(table), 1, HeaderPosition(table) - 1)
                  \o SubSeq(AllRows(table), HeaderPosition(table) + 1, Len(AllRows(table))),
              LAMBDA row : TdCells(row) # <<>>)

\* The return value that has each of these rows once, under the headers.
WithoutHeaderRow(table, season_name) ==
    ExtractRows(IF HasHeaderRow(table) THEN CellTexts(HeaderRow(table)) ELSE <<>>,
                RowsButHeader(table), season_name)

\* The team parser worked on a document that has the table.
TeamTableExtracted ==
    /\ parsed # NoneObj
    /\ parsed.parser = "team"
    /\ ParseHtml(doc) # NoneObj
    /\ FindTable(doc, "playerslist") # NoneObj

\* C25: the row whose cells became the headers is not emitted as a body
\* row: table.rows and team_stats hold every other row that has td cells,
\* once and in document order, for every shape of the table.
C25_HeaderRowNotInBody ==
    TeamTableExtracted =>
        \E season_name \in {NoneText, TxS15} :
            /\ parsed.result.table.rows =
                   WithoutHeaderRow(FindTable(doc, "playerslist"), season_name).table.rows
            /\ parsed.result.team_stats =
                   WithoutHeaderRow(FindTable(doc, "playerslist"), season_name).team_stats

\* The same for the tables that have a header row in <thead>, or no <tbody>.
HeaderRowNotInBodyOfHeadedTable ==
    (/\ TeamTableExtracted
     /\ \/ FindSection(FindTable(doc, "playerslist"), "tbody") = NoneObj
        \/ /\ FindSection(FindTable(doc, "playerslist"), "thead") # NoneObj
           /\ FindSection(FindTable(doc, "playerslist"), "thead").rows # <<>>) =>
        \E season_name \in {NoneText, TxS15} :
            /\ parsed.result.table.rows =
                   WithoutHeaderRow(FindTable(doc, "playerslist"), season_name).table.rows
            /\ parsed.result.team_stats =
                   WithoutHeaderRow(FindTable(doc, "playerslist"), season_name).team_stats


-----------------------------------------------------------------------------
(* Claims about the store writes of the endpoints *)

\* C26: a request that made no persist call (save_to_db false, or the scrape
\* did not get that far) leaves the store as it was: scraping alone writes
\* no row, and MatchScraper.scrape creates or modifies no Team.
C26_ScrapingAloneWritesNothing ==
    (run # NoneObj /\ run.persist = NoneObj) => store = run.before

\* The same for the scrapers other than MatchScraper.
OtherScrapersWriteNothing ==
    (run # NoneObj /\ run.persist = NoneObj /\ run.endpoint # "scrape_matches") =>
        store = run.before


-----------------------------------------------------------------------------
(* Claims about the counts that the persist operations return *)

\* The persist calls of an operation that completed.
Completed(op) == { c \in 1..Len(calls) : calls[c].op = op /\ ~calls[c].raised }

\* The skips of single match entries, as against the skips of whole groups.
EntrySkips(skipped) ==
    SelectSeq(skipped, LAMBDA s : s.reason \in {"missing_core_fields", "team_lookup_failed"})

\* The number of match entries in the groups whose tournament the store held.
RECURSIVE EntriesOfFoundGroups(_, _)
EntriesOfFoundGroups(match_sets, tournaments) ==
    IF match_sets = <<>> THEN 0
    ELSE (IF match_sets[1].tournament_id \in { t.id : t \in tournaments }
          THEN Len(match_sets[1].matches) ELSE 0)
         + EntriesOfFoundGroups(Tail(match_sets), tournaments)

\* C27: a save_stats_to_database call that completes counts every input row
\* once, as created, updated or skipped; a save_matches_to_database call that
\* completes counts every match entry of the groups whose tournament was
\* found once, as created, updated or skipped.
C27_CountConservation ==
    /\ \A c \in Completed("TeamScraper.save_stats_to_database") :
           calls[c].created + calls[c].updated + Len(calls[c].skipped)
               = Len(calls[c].args.team_stats)
    /\ \A c \in Completed("MatchScraper.save_matches_to_database") :
           calls[c].created + calls[c].updated + Len(EntrySkips(calls[c].skipped))
               = EntriesOfFoundGroups(calls[c].args.match_sets, calls[c].before.tournaments)

\* A call stored one match of a group and skipped the other, and the same
\* call made again updated the one and skipped the other.
C27_Witness ==
    /\ Len(calls) = 2
    /\ \A c \in 1..2 :
           /\ c \in Completed("MatchScraper.save_matches_to_database")
           /\ Len(calls[c].args.match_sets) = 1
           /\ Len(calls[c].args.match_sets[1].matches) = 2
           /\ Len(EntrySkips(calls[c].skipped)) = 1
    /\ calls[1].created = 1
    /\ calls[2].updated = 1


-----------------------------------------------------------------------------
(* Claims about the matches that save_matches_to_database stores *)

MatchCalls == { c \in 1..Len(calls) : calls[c].op = "MatchScraper.save_matches_to_database" }

\* The Match rows that a call created or modified.
WrittenMatches(call) == call.after.matches \ call.before.matches

\* An entry that may be stored: it has a match_url and two team ids, and the
\* store held its tournament and its two teams when the call was made.
Storable(call, group, entry) ==
    /\ group.tournament_id \in { t.id : t \in call.before.tournaments }
    /\ Strip(entry.match_url) # <<>>
    /\ entry.team_one_id \in { t.id : t \in call.before.teams }
    /\ entry.team_two_id \in { t.id : t \in call.before.teams }

\* The match is the row of the entry.
RowOfEntry(m, group, entry) ==
    /\ m.match_url = entry.match_url
    /\ m.tournament = group.tournament_id
    /\ m.team_one = entry.team_one_id
    /\ m.team_two = entry.team_two_id

\* C28: every Match that a save_matches_to_database call creates or modifies
\* has a match_url that is not blank and refers to a tournament and two
\* teams that the store held, and is the row of an entry that has all of
\* these: an entry with a blank match_url, a missing or unknown team id, or
\* an unknown tournament id writes no Match.
C28_StoredMatchesRefer ==
    \A c \in MatchCalls : \A m \in WrittenMatches(calls[c]) :
        /\ Strip(m.match_url) # <<>>
        /\ m.tournament \in { t.id : t \in calls[c].before.tournaments }
        /\ m.team_one \in { t.id : t \in calls[c].before.teams }
        /\ m.team_two \in { t.id : t \in calls[c].before.teams }
        /\ \E g \in 1..Len(calls[c].args.match_sets) :
               \E e \in 1..Len(calls[c].args.match_sets[g].matches) :
                   /\ Storable(calls[c], calls[c].args.match_sets[g],
                               calls[c].args.match_sets[g].matches[e])
                   /\ RowOfEntry(m, calls[c].args.match_sets[g],
                                 calls[c].args.match_sets[g].matches[e])

\* A call stored the match of one entry and skipped an entry that names a
\* team the store does not hold.
C28_Witness ==
    \E c \in MatchCalls :
        /\ ~calls[c].raised
        /\ Cardinality(WrittenMatches(calls[c])) = 1
        /\ \E i \in 1..Len(calls[c].skipped) :
               calls[c].skipped[i].reason = "team_lookup_failed"


-----------------------------------------------------------------------------
(* Claims about the placeholder region *)

\* The rows of the page of a scrape-teams request that name the team all
\* have a blank region.
OnlyBlankRegionRows(t) ==
    (run.scraped # NoneObj /\ ~run.scraped.raised
         /\ "team_stats" \in DOMAIN run.scraped.payload) =>
        \A i \in 1..Len(run.scraped.payload.team_stats) :
            EntryOf(run.scraped.payload.team_stats[i]).team_name = t.name =>
                ObservedRegion(EntryOf(run.scraped.payload.team_stats[i])) = <<>>

\* C29: a team that the store held with a region that is not empty keeps its
\* region when MatchScraper resolves it and when a team-stats row with a
\* blank region is persisted for it; and a team has the region 'Unknown'
\* only if it was created with it, had it already, or had an empty region.
C29_RealRegionKept ==
    run # NoneObj =>
        /\ \A t \in run.before.teams :
               (/\ ~Falsy(t.region)
                /\ \/ run.endpoint = "scrape_matches"
                   \/ run.endpoint = "scrape_teams" /\ OnlyBlankRegionRows(t)) =>
                   t \in store.teams
        /\ \A u \in store.teams :
               u.region = Unknown =>
                   \A t \in run.before.teams :
                       t.id = u.id => t.region \in {<<>>, Unknown}

\* MatchScraper resolved both stored teams: the one with a region kept it,
\* the one with an empty region now has 'Unknown'.
C29_Witness ==
    /\ Returned("scrape_matches")
    /\ \E t \in run.before.teams : t.name = TxT1 /\ t.region = TxKR /\ t \in store.teams
    /\ \E t \in run.before.teams :
           /\ t.name = TxG2 /\ t.region = <<>>
           /\ [t EXCEPT !.region = Unknown] \in store.teams

\* A team-stats row with a blank region was persisted for a team that has a
\* region, which it kept.
BlankRowPersistedForTeam ==
    /\ Returned("scrape_teams")
    /\ run.persist # NoneObj
    /\ ~run.persist.raised
    /\ run.persist.created = 2
    /\ \E t \in run.before.teams :
           /\ t.region = TxKR
           /\ OnlyBlankRegionRows(t)
           /\ \E i \in 1..Len(run.scraped.payload.team_stats) :
                  EntryOf(run.scraped.payload.team_stats[i]).team_name = t.name
           /\ t \in store.teams


-----------------------------------------------------------------------------
(* Claims about the validation of the requests *)

\* The requests that an endpoint has to refuse: scrape-teams without
\* source_url, scrape-teams or scrape-champions with save_to_db and no
\* season_name, scrape-matches or scrape-tournaments with a filter that is
\* no list.
Invalid(endpoint, request) ==
    CASE endpoint = "scrape_teams" ->
             request.source_url = NoneObj \/ (request.save_to_db /\ Falsy(request.season_name))
      [] endpoint = "scrape_champions" ->
             request.save_to_db /\ Falsy(request.season_name)
      [] endpoint = "scrape_matches" ->
             \/ request.tournament_names.json = "string"
             \/ request.tournament_ids.json = "string"
      [] endpoint = "scrape_tournaments" ->
             request.seasons.json = "string"

\* The request left no trace: no request went to the network, the store is
\* as it was, and neither a scraper nor a persist operation was called.
NoSideEffect ==
    /\ nsent = run.nsent_before
    /\ store = run.before
    /\ run.scraped = NoneObj
    /\ run.persist = NoneObj

\* C30: an invalid request is answered with 400, and a request answered with
\* 400 has fetched nothing and written nothing; scrape-tournaments without
\* its snapshot directory answers with status error and persists nothing,
\* with save_to_db too.
C30_ValidationBeforeSideEffects ==
    run # NoneObj =>
        /\ Invalid(run.endpoint, run.request) => run.response.code = 400
        /\ run.response.code = 400 => NoSideEffect
        /\ (/\ run.endpoint = "scrape_tournaments"
            /\ ~Invalid(run.endpoint, run.request)
            /\ run.met.directory = NoneObj) =>
               /\ run.response.status = "error"
               /\ run.persist = NoneObj
               /\ store = run.before

\* A scrape-teams request that asks to persist and names no season was
\* refused, while the page it asks for was there with its rows.
C30_Witness ==
    /\ run # NoneObj
    /\ run.endpoint = "scrape_teams"
    /\ run.request.source_url = UrlSource
    /\ run.request.save_to_db
    /\ run.request.season_name = NoneText
    /\ run.met.net = "ok"
    /\ run.met.page = StatsPage(TeamHeader, << <<TxT1, TxKR, TxTen>> >>)
    /\ run.response.code = 400
    /\ NoSideEffect

\* scrape-tournaments was asked to persist and found no snapshot directory.
FatalErrorNotPersisted ==
    /\ run # NoneObj
    /\ run.endpoint = "scrape_tournaments"
    /\ run.request.save_to_db
    /\ run.met.directory = NoneObj
    /\ run.response.status = "error"
    /\ run.persist = NoneObj

=============================================================================
